---- MODULE Spec2Model ----
(***************************************************************************)
(* AnonHere (src/app.py): the in-process ephemeral-state coordinator of    *)
(* the chat relay.  The state is the three process-wide maps (RATE_LIMITS, *)
(* LAST_SEEN, ACTIVE_SESSIONS), the SQLite tables rooms and messages, the  *)
(* per-client Flask session cookie and the clock.  Each route handler is   *)
(* one action where requests run one at a time; where requests run as     *)
(* parallel threads, a thread takes one statement of its handler per step. *)
(*                                                                         *)
(* Time is in whole seconds since the epoch (UTC).  A Python dict is a     *)
(* function whose DOMAIN is the set of keys present.                       *)
(*                                                                         *)
(* The Redis chat variant (src/api/index.py) is a second, separate Flask   *)
(* application: its state is the Redis list 'chat_messages'.               *)
(***************************************************************************)
EXTENDS Integers, Sequences, FiniteSets, TLC

VARIABLES
    now,              \* the clock: time.time() and datetime.now(timezone.utc)
    RATE_LIMITS,      \* ident -> action -> list of timestamps
    LAST_SEEN,        \* room_id -> username -> timestamp
    ACTIVE_SESSIONS,  \* username -> session_id
    session,          \* client -> that client's Flask session (a dict)
    DB_INITIALIZED,   \* the module flag of ensure_db_initialized
    db_tables,        \* whether the tables rooms and messages exist in DB_FILE
    rooms,            \* table rooms: code -> [name, created_at]
    messages,         \* table messages: id -> [username, content, room_code, timestamp]
    next_id,          \* AUTOINCREMENT: the next message id
    next_token,       \* the next value generate_session_id() returns
    due,              \* (steady-state driver) the time of the next evenly spaced call
    calls,            \* (rate-limiter driver) the number of calls made so far
    rejected,         \* (rate-limiter driver) the <<ident, action>> pairs a call rejected
    issued,           \* (client) client -> the cookies the server has sent it so far
    touched,          \* (presence driver) room_id -> username -> time of the last touch
    threads,          \* thread -> the position and the locals of a request in flight
    redis,            \* (src/api/index.py) the client r and the list 'chat_messages'
    unswept,          \* (rate-limiter driver) RATE_LIMITS as the same calls make it without sweeps
    instances,        \* (room driver) the room instance of each client and of each message
    resp              \* the last request and its response

vars == <<now, RATE_LIMITS, LAST_SEEN, ACTIVE_SESSIONS, session, DB_INITIALIZED,
          db_tables, rooms, messages, next_id, next_token, due, calls, rejected, issued, touched,
          threads, redis, unswept, instances, resp>>

----------------------------------------------------------------------------
(* Bounds of the model *)

\* SpecRL: the clock stops here (and once more TrimWindow later)
MaxTimeRL == 10
\* SpecRL: the number of check_rate_limit calls
MaxCallsRL == 7
\* SpecRL: a small limit and window, beside the three of the call sites
ProbeLimit == 2
ProbeWindow == 3
\* SpecSteady: the clock stops here
MaxTimeSteady == 130
\* SpecSend: the clock stops here
MaxTimeSend == 1
\* SpecSend: message ids go up to here
MaxMsgsSend == 1
\* SpecDelete: message ids go up to here
MaxMsgsDelete == 2
\* SpecDelete: the number of DELETE requests
MaxDeletes == 3
\* SpecRetention: message ids go up to here
MaxMsgsRetention == 2
\* SpecRetention: the clock stops here (two hours and two minutes)
MaxTimeRetention == 7320
\* SpecRooms: the clock stops here (an hour and forty minutes)
MaxTimeRooms == 6000
\* SpecPresence: the clock stops here
MaxTimePresence == 20
\* SpecPresence: the number of touches
MaxTouches == 3
\* SpecCreate: the number of create_room requests
MaxCreates == 3
\* SpecOrder: message ids go up to here
MaxMsgsOrder == 4
\* SpecOrder: the clock stops here
MaxTimeOrder == 2
\* SpecJoin: the clock stops here
MaxTimeJoin == 60
\* SpecRLThreads: the number of check_rate_limit calls
MaxCallsThreads == 3
\* SpecSweepThreads: the number of check_rate_limit calls
MaxCallsSweep == 2
\* SpecPresenceThreads: the number of touches
MaxTouchesThreads == 2
\* SpecPresenceThreads: the clock stops here
MaxTimePresenceThreads == 10
\* SpecTransparent: the number of check_rate_limit calls
MaxCallsTransparent == 4
\* SpecTransparent: the clock stops here
MaxTimeTransparent == 600
\* SpecLogin: the number of tokens generate_session_id() hands out
MaxTokensLogin == 4
\* SpecIsolation: the number of rooms created
MaxRoomsIsolation == 2
\* SpecIsolation: message ids go up to here
MaxMsgsIsolation == 1
\* SpecIsolation: the clock stops here
MaxTimeIsolation == 3660
\* SpecJoinLive: the clock stops here, before the first join is a window old
MaxTimeJoinLive == 50
\* SpecChat: the number of POST /api/chat requests
MaxPostsChat == 3
\* SpecChat: the clock stops here
MaxTimeChat == 2
\* SpecRead: message ids go up to here
MaxMsgsRead == 3
\* SpecRead: the clock stops here (61 minutes)
MaxTimeRead == 3660
\* SpecRead: the number of rooms created
MaxRoomsRead == 1
\* SpecSession: message ids go up to here
MaxMsgsSession == 1
\* SpecSession: the number of session tokens issued
MaxTokens == 2

----------------------------------------------------------------------------
(* Python dicts *)

EmptyDict == << >>

Has(d, k) == k \in DOMAIN d

SetKey(d, k, v) == [x \in (DOMAIN d) \cup {k} |-> IF x = k THEN v ELSE d[x]]

DelKey(d, k) == [x \in (DOMAIN d) \ {k} |-> d[x]]

\* d.get(k), with dflt standing for None
Get(d, k, dflt) == IF k \in DOMAIN d THEN d[k] ELSE dflt

----------------------------------------------------------------------------
(* Program constants *)

\* room_code of a message in the global room (SQL NULL, Python None)
NULL == 0
\* session.get('session_id') when the cookie holds none (Python None)
NoToken == 0

SendLimit == 5
SendWindow == 10
DeleteLimit == 10
DeleteWindow == 60
JoinLimit == 5
JoinWindow == 60
\* get_active_count: seen in the last 10 seconds
PresenceWindow == 10
\* cleanup_old_messages: rate-limit entries kept for 300 seconds
TrimWindow == 300
\* timedelta(hours=1)
Retention == 3600
SecondsPerDay == 86400

\* the (action, limit, window) of the three call sites of check_rate_limit
Sites == { <<"send_msg", SendLimit, SendWindow>>,
           <<"delete_msg", DeleteLimit, DeleteWindow>>,
           <<"join_fail", JoinLimit, JoinWindow>> }

Clients == {"c1", "c2"}
\* request.remote_addr of each client
remote_addr(c) == IF c = "c1" THEN "ip1" ELSE "ip2"
Idents == {remote_addr(c) : c \in Clients}
Usernames == {"alice", "bob"}

----------------------------------------------------------------------------
(* Rate limiter *)

\* a plausible slip: an event exactly window old is kept
InWindow_closed(ts, t, window) == SelectSeq(ts, LAMBDA x : t - x <= window)

\* line 63: the timestamps still inside the window
InWindow(ts, t, window) == SelectSeq(ts, LAMBDA x : t - x < window)

\* a plausible slip: the rejected attempt is recorded too
check_rate_limit_records_rejected(RL, ident, action, limit, window, t) ==
    LET r1 == IF Has(RL, ident) THEN RL ELSE SetKey(RL, ident, EmptyDict)
        r2 == IF Has(r1[ident], action) THEN r1
              ELSE SetKey(r1, ident, SetKey(r1[ident], action, << >>))
        timestamps == InWindow(r2[ident][action], t, window)
    IN  [allowed |-> Len(timestamps) < limit,
         RL |-> SetKey(r2, ident, SetKey(r2[ident], action, Append(timestamps, t)))]

\* a plausible slip: > for >= in the limit test
check_rate_limit_off_by_one(RL, ident, action, limit, window, t) ==
    LET r1 == IF Has(RL, ident) THEN RL ELSE SetKey(RL, ident, EmptyDict)
        r2 == IF Has(r1[ident], action) THEN r1
              ELSE SetKey(r1, ident, SetKey(r1[ident], action, << >>))
        timestamps == InWindow(r2[ident][action], t, window)
        r3 == SetKey(r2, ident, SetKey(r2[ident], action, timestamps))
    IN  IF Len(timestamps) > limit
        THEN [allowed |-> FALSE, RL |-> r3]
        ELSE [allowed |-> TRUE,
              RL |-> SetKey(r3, ident, SetKey(r3[ident], action, Append(timestamps, t)))]

\* a plausible slip: <= for < in the window filter (an event exactly W old still counts)
check_rate_limit_closed_window(RL, ident, action, limit, window, t) ==
    LET r1 == IF Has(RL, ident) THEN RL ELSE SetKey(RL, ident, EmptyDict)
        r2 == IF Has(r1[ident], action) THEN r1
              ELSE SetKey(r1, ident, SetKey(r1[ident], action, << >>))
        timestamps == SelectSeq(r2[ident][action], LAMBDA x : t - x <= window)
        r3 == SetKey(r2, ident, SetKey(r2[ident], action, timestamps))
    IN  IF Len(timestamps) >= limit
        THEN [allowed |-> FALSE, RL |-> r3]
        ELSE [allowed |-> TRUE,
              RL |-> SetKey(r3, ident, SetKey(r3[ident], action, Append(timestamps, t)))]

\* check_rate_limit(ident, action, limit, window) at time t on the table RL:
\* the value returned and the table afterwards
check_rate_limit(RL, ident, action, limit, window, t) ==
    LET r1 == IF Has(RL, ident) THEN RL ELSE SetKey(RL, ident, EmptyDict)
        r2 == IF Has(r1[ident], action) THEN r1
              ELSE SetKey(r1, ident, SetKey(r1[ident], action, << >>))
        timestamps == InWindow(r2[ident][action], t, window)
        r3 == SetKey(r2, ident, SetKey(r2[ident], action, timestamps))
    IN  IF Len(timestamps) >= limit
        THEN [allowed |-> FALSE, RL |-> r3]
        ELSE [allowed |-> TRUE,
              RL |-> SetKey(r3, ident, SetKey(r3[ident], action, Append(timestamps, t)))]

\* a plausible slip: the sweep trims at 30 seconds
cleanup_rate_limits_30(RL, t) ==
    LET trimmed(ident) ==
            [a \in DOMAIN RL[ident] |-> SelectSeq(RL[ident][a], LAMBDA x : t - x < 30)]
        kept(ident) == {a \in DOMAIN RL[ident] : trimmed(ident)[a] # << >>}
    IN  [ident \in {i \in DOMAIN RL : kept(i) # {}} |->
            [a \in kept(ident) |-> trimmed(ident)[a]]]

\* lines 160-171: the rate-limit part of cleanup_old_messages
cleanup_rate_limits(RL, t) ==
    LET trimmed(ident) ==
            [a \in DOMAIN RL[ident] |-> SelectSeq(RL[ident][a], LAMBDA x : t - x < TrimWindow)]
        kept(ident) == {a \in DOMAIN RL[ident] : trimmed(ident)[a] # << >>}
    IN  [ident \in {i \in DOMAIN RL : kept(i) # {}} |->
            [a \in kept(ident) |-> trimmed(ident)[a]]]

----------------------------------------------------------------------------
(* Presence tracker *)

\* str(room_code) if room_code else 'global'
room_id_of(room_code) == IF room_code # NULL THEN ToString(room_code) ELSE "global"

\* update_presence(room_id, username) at time t
update_presence(LS, room_id, username, t) ==
    LET l1 == IF Has(LS, room_id) THEN LS ELSE SetKey(LS, room_id, EmptyDict)
    IN  SetKey(l1, room_id, SetKey(l1[room_id], username, t))

\* get_active_count(room_id) at time t: the count returned and the table afterwards
\* a plausible slip: <= for < (an entry exactly 10 seconds old still counts)
get_active_count_inclusive(LS, room_id, t) ==
    IF ~Has(LS, room_id) THEN [count |-> 0, LS |-> LS]
    ELSE LET active_users == {u \in DOMAIN LS[room_id] : t - LS[room_id][u] <= PresenceWindow}
         IN  [count |-> Cardinality(active_users),
              LS |-> SetKey(LS, room_id, [u \in active_users |-> LS[room_id][u]])]

get_active_count(LS, room_id, t) ==
    IF ~Has(LS, room_id) THEN [count |-> 0, LS |-> LS]
    ELSE LET active_users == {u \in DOMAIN LS[room_id] : t - LS[room_id][u] < PresenceWindow}
         IN  [count |-> Cardinality(active_users),
              LS |-> SetKey(LS, room_id, [u \in active_users |-> LS[room_id][u]])]

----------------------------------------------------------------------------
(* Timestamps as SQLite stores and compares them: text, compared byte by    *)
(* byte.  A text is <<date, separator, time of day, suffix>>: the date      *)
(* "YYYY-MM-DD" and the time "HH:MM:SS" are fixed-width digits, so they     *)
(* compare as the numbers they spell; the separator and the first byte of   *)
(* the suffix are kept as their character codes (0: the text ends there).   *)

\* ' '
SpaceChar == 32
\* 'T'
TChar == 84
\* '+', the first byte of the suffix "+00:00"
PlusChar == 43
\* the text ends
EndOfText == 0

\* adapt_datetime: dt.isoformat() of an aware UTC datetime,
\* "YYYY-MM-DDTHH:MM:SS+00:00"
adapt_datetime(t) == <<t \div SecondsPerDay, TChar, t % SecondsPerDay, PlusChar>>

\* SQLite's CURRENT_TIMESTAMP, "YYYY-MM-DD HH:MM:SS" (UTC)
CURRENT_TIMESTAMP(t) == <<t \div SecondsPerDay, SpaceChar, t % SecondsPerDay, EndOfText>>

\* the instant a stored text spells
TimeOf(text) == text[1] * SecondsPerDay + text[3]

\* SQLite's a < b on TEXT values (BINARY collation)
TextLess(a, b) ==
    \E i \in 1..4 : a[i] < b[i] /\ \A j \in 1..(i - 1) : a[j] = b[j]

----------------------------------------------------------------------------
(* Session registry *)

\* a plausible slip: the registry is not consulted, the name is never in use
is_username_active_never(AS, sess, username) == FALSE

\* is_username_active(username), asked by the client whose cookie is sess
is_username_active(AS, sess, username) ==
    IF ~Has(AS, username) THEN FALSE
    ELSE AS[username] # Get(sess, "session_id", NoToken)

\* register_session(username) with session_id the value generate_session_id() returned:
\* the registry and the cookie afterwards
register_session(AS, sess, username, session_id) ==
    [AS |-> SetKey(AS, username, session_id),
     sess |-> SetKey(SetKey(sess, "session_id", session_id), "username", username)]

\* unregister_session(username)
unregister_session(AS, username) ==
    IF Has(AS, username) THEN DelKey(AS, username) ELSE AS

----------------------------------------------------------------------------
(* Database *)

\* init_db(): both tables dropped and created again, empty
init_db == [rooms |-> EmptyDict, messages |-> EmptyDict, next_id |-> 1]

\* ensure_db_initialized(): the tables afterwards
ensure_db_initialized ==
    IF ~DB_INITIALIZED THEN init_db
    ELSE [rooms |-> rooms, messages |-> messages, next_id |-> next_id]

\* a plausible slip: <= for < in the DELETE of expired messages
expired_inclusive(text, cutoff) == ~TextLess(cutoff, text)

\* WHERE timestamp < ? / WHERE created_at < ?
expired(text, cutoff) == TextLess(text, cutoff)

\* a plausible slip: the request goes on without the sweep
cleanup_skipped(rs, ms, RL, t) == [messages |-> ms, rooms |-> rs, RL |-> RL]

\* cleanup_old_messages() at time t on the tables rs, ms and the rate-limit table RL
cleanup_old_messages(rs, ms, RL, t) ==
    LET one_hour_ago == adapt_datetime(t - Retention)
    IN  [messages |-> [i \in {j \in DOMAIN ms : ~expired(ms[j].timestamp, one_hour_ago)}
                          |-> ms[i]],
         rooms |-> [code \in {k \in DOMAIN rs : ~expired(rs[k].created_at, one_hour_ago)}
                          |-> rs[code]],
         RL |-> cleanup_rate_limits(RL, t)]

\* the ids of the messages of ms whose room_code is room_code
InRoom(ms, room_code) == {i \in DOMAIN ms : ms[i].room_code = room_code}

\* ORDER BY timestamp ASC over the rows S of ms: every order of the rows in which
\* the timestamps do not decrease (rows of equal timestamp come in any order)
\* a plausible slip: ORDER BY timestamp DESC
RECURSIVE OrderByTimestampDesc(_, _)
OrderByTimestampDesc(ms, S) ==
    IF S = {} THEN { << >> }
    ELSE UNION { { <<m>> \o rest : rest \in OrderByTimestampDesc(ms, S \ {m}) } :
                 m \in {x \in S : \A y \in S : ~TextLess(ms[x].timestamp, ms[y].timestamp)} }

RECURSIVE OrderByTimestamp(_, _)
OrderByTimestamp(ms, S) ==
    IF S = {} THEN { << >> }
    ELSE UNION { { <<m>> \o rest : rest \in OrderByTimestamp(ms, S \ {m}) } :
                 m \in {x \in S : \A y \in S : ~TextLess(ms[y].timestamp, ms[x].timestamp)} }

----------------------------------------------------------------------------
(* Requests and responses *)

\* resp when the request named op of client c has been answered; the fields a
\* handler does not set keep these values
Response(op, c) ==
    [op |-> op, client |-> c, method |-> "", status |-> 0, result |-> "",
     username |-> "", message_id |-> 0, ident |-> "", action |-> "",
     ids |-> << >>, active_count |-> 0, room_id |-> "", messages |-> << >>]

db_vars == <<DB_INITIALIZED, db_tables, rooms, messages, next_id>>
\* what the handlers of src/app.py run one at a time do not refer to: the
\* callers' bookkeeping, the requests in flight and the Redis list
driver_vars == <<due, calls, rejected, issued, touched, threads, redis, unswept, instances>>

\* the clock advances by d seconds
Tick(d) ==
    /\ now' = now + d
    /\ resp' = Response("tick", "")
    /\ UNCHANGED <<RATE_LIMITS, LAST_SEEN, ACTIVE_SESSIONS, session, next_token>>
    /\ UNCHANGED db_vars

\* The Flask session is a cookie signed with app.secret_key and kept by the
\* client: a client may present any cookie the server has sent it, also an
\* old one (another tab, a saved copy).
replay_cookie(c, cookie) ==
    /\ cookie \in issued[c]
    /\ cookie # session[c]
    /\ session' = [session EXCEPT ![c] = cookie]
    /\ resp' = Response("cookie", c)
    /\ UNCHANGED <<now, RATE_LIMITS, LAST_SEEN, ACTIVE_SESSIONS, next_token>>
    /\ UNCHANGED db_vars

\* the client keeps the cookie of the response
keep_cookies ==
    /\ issued' = [c \in Clients |-> issued[c] \cup {session'[c]}]
    /\ UNCHANGED <<due, calls, rejected, touched, threads, redis, unswept, instances>>

\* POST /login with form field username (flash() is the response's result)
login(c, username) ==
    /\ IF username = ""
       THEN /\ resp' = [Response("login", c) EXCEPT !.status = 302, !.result = "no username"]
            /\ UNCHANGED <<ACTIVE_SESSIONS, session, next_token>>
       ELSE IF is_username_active(ACTIVE_SESSIONS, session[c], username)
       THEN /\ resp' = [Response("login", c) EXCEPT !.status = 302, !.username = username,
                                                    !.result = "IDENTITY ALREADY ACTIVE"]
            /\ UNCHANGED <<ACTIVE_SESSIONS, session, next_token>>
       ELSE LET r == register_session(ACTIVE_SESSIONS, session[c], username, next_token)
            IN  /\ ACTIVE_SESSIONS' = r.AS
                /\ session' = [session EXCEPT ![c] = r.sess]
                /\ next_token' = next_token + 1
                /\ resp' = [Response("login", c) EXCEPT !.status = 302, !.username = username,
                                                        !.result = "registered"]
    /\ UNCHANGED <<now, RATE_LIMITS, LAST_SEEN>>
    /\ UNCHANGED db_vars

\* GET /logout
logout(c) ==
    LET username == Get(session[c], "username", "")
    IN  /\ ACTIVE_SESSIONS' = IF username # "" THEN unregister_session(ACTIVE_SESSIONS, username)
                              ELSE ACTIVE_SESSIONS
        /\ session' = [session EXCEPT ![c] = EmptyDict]
        /\ resp' = [Response("logout", c) EXCEPT !.status = 302, !.username = username]
        /\ UNCHANGED <<now, RATE_LIMITS, LAST_SEEN, next_token>>
        /\ UNCHANGED db_vars
    
\* GET /join_global
join_global(c) ==
    /\ session' = [session EXCEPT ![c] =
                      DelKey(DelKey(SetKey(@, "room_type", "global"), "room_code"), "room_name")]
    /\ resp' = [Response("join_global", c) EXCEPT !.status = 302]
    /\ UNCHANGED <<now, RATE_LIMITS, LAST_SEEN, ACTIVE_SESSIONS, next_token>>
    /\ UNCHANGED db_vars

\* GET /leave_room
leave_room(c) ==
    /\ session' = [session EXCEPT ![c] =
                      DelKey(DelKey(DelKey(@, "room_type"), "room_code"), "room_name")]
    /\ resp' = [Response("leave_room", c) EXCEPT !.status = 302]
    /\ UNCHANGED <<now, RATE_LIMITS, LAST_SEEN, ACTIVE_SESSIONS, next_token>>
    /\ UNCHANGED db_vars

\* random.randint(100000, 999999): the codes the model draws
Codes == {100000, 999999}

\* POST /create_room with form field room_name.  Without the tables the SELECT
\* raises sqlite3.OperationalError and the request ends 500.  The loop ends at
\* the first code drawn that no room holds.
create_room(c, room_name) ==
    /\ IF room_name = ""
       THEN /\ resp' = [Response("create_room", c) EXCEPT !.status = 302, !.result = "no name"]
            /\ UNCHANGED <<rooms, session>>
       ELSE IF ~db_tables
       THEN /\ resp' = [Response("create_room", c) EXCEPT !.status = 500]
            /\ UNCHANGED <<rooms, session>>
       ELSE \E code \in Codes \ DOMAIN rooms :
            /\ rooms' = SetKey(rooms, code,
                               [name |-> room_name, created_at |-> CURRENT_TIMESTAMP(now)])
            /\ session' = [session EXCEPT ![c] =
                    SetKey(SetKey(SetKey(@, "room_type", "private"), "room_code", code),
                           "room_name", room_name)]
            /\ resp' = [Response("create_room", c) EXCEPT !.status = 302, !.result = "created"]
    /\ UNCHANGED <<now, RATE_LIMITS, LAST_SEEN, ACTIVE_SESSIONS, next_token>>
    /\ UNCHANGED <<DB_INITIALIZED, db_tables, messages, next_id>>

\* a plausible slip: the code is looked up first, the lock-out guards only the
\* failure
join_room_lookup_first(c, code) ==
    LET ip == remote_addr(c)
        rl == check_rate_limit(RATE_LIMITS, ip, "join_fail", JoinLimit, JoinWindow, now)
        found == {k \in DOMAIN rooms : ToString(k) = code}
    IN  /\ IF code = ""
           THEN /\ resp' = [Response("join_room", c) EXCEPT !.room_id = code, !.status = 302, !.result = "no code"]
                /\ UNCHANGED <<RATE_LIMITS, session>>
           ELSE IF ~db_tables
           THEN /\ RATE_LIMITS' = rl.RL
                /\ resp' = [Response("join_room", c) EXCEPT !.room_id = code, !.status = 500, !.ident = ip]
                /\ UNCHANGED session
           ELSE IF found # {}
           THEN LET room_code == CHOOSE k \in found : TRUE
                IN  /\ RATE_LIMITS' = rl.RL
                    /\ session' = [session EXCEPT ![c] =
                          SetKey(SetKey(SetKey(@, "room_type", "private"), "room_code", room_code),
                                 "room_name", rooms[room_code].name)]
                    /\ resp' = [Response("join_room", c) EXCEPT !.room_id = code, !.status = 302, !.ident = ip,
                                                                !.result = "joined"]
           ELSE IF ~rl.allowed
           THEN /\ RATE_LIMITS' = rl.RL
                /\ resp' = [Response("join_room", c) EXCEPT !.room_id = code, !.status = 302, !.ident = ip,
                               !.result = "SECURITY LOCKOUT // TOO MANY FAILED ATTEMPTS"]
                /\ UNCHANGED session
           ELSE /\ RATE_LIMITS' = rl.RL
                /\ resp' = [Response("join_room", c) EXCEPT !.room_id = code, !.status = 302, !.ident = ip,
                                                            !.result = "INVALID FREQUENCY CODE"]
                /\ UNCHANGED session
        /\ UNCHANGED <<now, LAST_SEEN, ACTIVE_SESSIONS, next_token>>
        /\ UNCHANGED db_vars

\* POST /join_room with form field room_code (a text).  code = ? compares the
\* INTEGER column with the text: the row whose code the text spells matches.
join_room(c, code) ==
    LET ip == remote_addr(c)
        rl == check_rate_limit(RATE_LIMITS, ip, "join_fail", JoinLimit, JoinWindow, now)
        found == {k \in DOMAIN rooms : ToString(k) = code}
    IN  /\ IF code = ""
           THEN /\ resp' = [Response("join_room", c) EXCEPT !.room_id = code, !.status = 302, !.result = "no code"]
                /\ UNCHANGED <<RATE_LIMITS, session>>
           ELSE IF ~rl.allowed
           THEN /\ RATE_LIMITS' = rl.RL
                /\ resp' = [Response("join_room", c) EXCEPT !.room_id = code, !.status = 302, !.ident = ip,
                               !.result = "SECURITY LOCKOUT // TOO MANY FAILED ATTEMPTS"]
                /\ UNCHANGED session
           ELSE IF ~db_tables
           THEN /\ RATE_LIMITS' = rl.RL
                /\ resp' = [Response("join_room", c) EXCEPT !.room_id = code, !.status = 500, !.ident = ip]
                /\ UNCHANGED session
           ELSE IF found # {}
           THEN LET room_code == CHOOSE k \in found : TRUE
                IN  /\ RATE_LIMITS' = rl.RL
                    /\ session' = [session EXCEPT ![c] =
                          SetKey(SetKey(SetKey(@, "room_type", "private"), "room_code", room_code),
                                 "room_name", rooms[room_code].name)]
                    /\ resp' = [Response("join_room", c) EXCEPT !.room_id = code, !.status = 302, !.ident = ip,
                                                                !.result = "joined"]
           ELSE /\ RATE_LIMITS' = rl.RL
                /\ resp' = [Response("join_room", c) EXCEPT !.room_id = code, !.status = 302, !.ident = ip,
                                                            !.result = "INVALID FREQUENCY CODE"]
                /\ UNCHANGED session
        /\ UNCHANGED <<now, LAST_SEEN, ACTIVE_SESSIONS, next_token>>
        /\ UNCHANGED db_vars
    
----------------------------------------------------------------------------
(* /api/messages *)

\* a plausible slip: a registered username is enough, the token is not compared
session_valid_any_token(AS, sess) ==
    LET username == Get(sess, "username", "")
    IN  username # "" /\ Has(AS, username)

\* line 614: the cookie sess holds a username and the token the registry holds for it
session_valid(AS, sess) ==
    LET username == Get(sess, "username", "")
        session_id == Get(sess, "session_id", NoToken)
    IN  ~(username = "" \/ session_id = NoToken
          \/ Get(AS, username, NoToken) # session_id)

\* a plausible slip: any author's message may be deleted
may_delete_any(ms, message_id, username) == TRUE

\* line 644: the message's author is the requester
may_delete(ms, message_id, username) == ms[message_id].username = username

\* api_messages() for client c with request method and JSON body data: the
\* response and the tables afterwards (lists: the response is the room listing,
\* whose order the action draws)
api_result(c, method, data) ==
    LET db == ensure_db_initialized
        sw == cleanup_old_messages(db.rooms, db.messages, RATE_LIMITS, now)
        sess == session[c]
        username == Get(sess, "username", "")
        room_code == Get(sess, "room_code", NULL)
        room_id == room_id_of(room_code)
        ip == remote_addr(c)
        out == [status |-> 200, result |-> "", lists |-> FALSE, room_code |-> room_code,
                RL |-> sw.RL, LS |-> LAST_SEEN, rooms |-> sw.rooms,
                messages |-> sw.messages, next_id |-> db.next_id]
        seen == update_presence(LAST_SEEN, room_id, username, now)
        listing == [out EXCEPT !.lists = TRUE, !.result = "messages"]
    IN  IF ~session_valid(ACTIVE_SESSIONS, sess)
        THEN [out EXCEPT !.status = 401, !.result = "Unauthorized"]
        ELSE IF method = "DELETE"
        THEN LET rl == check_rate_limit(sw.RL, ip, "delete_msg", DeleteLimit, DeleteWindow, now)
                 message_id == Get(data, "message_id", 0)
             IN  IF ~rl.allowed
                 THEN [out EXCEPT !.status = 429, !.result = "Rate limit exceeded",
                                  !.RL = rl.RL, !.LS = seen]
                 ELSE IF message_id = 0
                 THEN [out EXCEPT !.status = 400, !.result = "Message ID required",
                                  !.RL = rl.RL, !.LS = seen]
                 ELSE IF ~Has(sw.messages, message_id)
                 THEN [out EXCEPT !.status = 404, !.result = "Message not found",
                                  !.RL = rl.RL, !.LS = seen]
                 ELSE IF ~may_delete(sw.messages, message_id, username)
                 THEN [out EXCEPT !.status = 403, !.result = "Unauthorized",
                                  !.RL = rl.RL, !.LS = seen]
                 ELSE [out EXCEPT !.result = "deleted", !.RL = rl.RL, !.LS = seen,
                                  !.messages = DelKey(sw.messages, message_id)]
        ELSE IF method = "POST"
        THEN LET rl == check_rate_limit(sw.RL, ip, "send_msg", SendLimit, SendWindow, now)
                 content == Get(data, "content", "")
             IN  IF ~rl.allowed
                 THEN [out EXCEPT !.status = 429, !.result = "Rate limit exceeded",
                                  !.RL = rl.RL, !.LS = seen]
                 ELSE IF content # ""
                 THEN [out EXCEPT !.result = "sent", !.RL = rl.RL, !.LS = seen,
                                  !.next_id = db.next_id + 1,
                                  !.messages = SetKey(sw.messages, db.next_id,
                                      [username |-> username, content |-> content,
                                       room_code |-> room_code,
                                       timestamp |-> adapt_datetime(now)])]
                 ELSE [listing EXCEPT !.RL = rl.RL, !.LS = seen]
        ELSE [listing EXCEPT !.LS = seen]

\* /api/messages, methods GET, POST, DELETE
api_messages(c, method, data) ==
    LET r == api_result(c, method, data)
        room_id == room_id_of(r.room_code)
        count == get_active_count(r.LS, room_id, now)
    IN  /\ \E ids \in (IF r.lists THEN OrderByTimestamp(r.messages, InRoom(r.messages, r.room_code))
                        ELSE { << >> }) :
             resp' = [Response("api", c) EXCEPT
                        !.method = method, !.status = r.status, !.result = r.result,
                        !.username = Get(session[c], "username", ""),
                        !.message_id = Get(data, "message_id", 0),
                        !.ident = remote_addr(c), !.ids = ids,
                        !.active_count = IF r.lists THEN count.count ELSE 0]
        /\ RATE_LIMITS' = r.RL
        /\ LAST_SEEN' = IF r.lists THEN count.LS ELSE r.LS
        /\ rooms' = r.rooms
        /\ messages' = r.messages
        /\ next_id' = r.next_id
        /\ DB_INITIALIZED' = TRUE
        /\ db_tables' = TRUE
        /\ UNCHANGED <<now, ACTIVE_SESSIONS, session, next_token>>
    
----------------------------------------------------------------------------
(* Drivers: direct calls of check_rate_limit *)

\* one call check_rate_limit(ident, action, limit, window), site = <<action, limit, window>>
rate_limit_call(ident, site, max_calls) ==
    LET rl == check_rate_limit(RATE_LIMITS, ident, site[1], site[2], site[3], now)
    IN  /\ calls < max_calls
        /\ calls' = calls + 1
        /\ rejected' = IF rl.allowed THEN rejected ELSE rejected \cup { <<ident, site[1]>> }
        /\ RATE_LIMITS' = rl.RL
        /\ resp' = [Response("check", "") EXCEPT !.ident = ident, !.action = site[1],
                        !.result = IF rl.allowed THEN "allowed" ELSE "rejected"]
        /\ UNCHANGED <<now, LAST_SEEN, ACTIVE_SESSIONS, session, next_token, due, issued,
                       touched, threads, redis, unswept, instances>>
        /\ UNCHANGED db_vars

----------------------------------------------------------------------------
(* The state after the module is loaded.  Run as a script, __main__ has      *)
(* called init_db() (the tables exist, DB_INITIALIZED is still False);       *)
(* imported by a server on a fresh DB_FILE, the tables do not exist yet.     *)

Init ==
    /\ now = 0
    /\ RATE_LIMITS = EmptyDict
    /\ LAST_SEEN = EmptyDict
    /\ ACTIVE_SESSIONS = EmptyDict
    /\ session = [c \in Clients |-> EmptyDict]
    /\ DB_INITIALIZED = FALSE
    /\ db_tables \in BOOLEAN
    /\ rooms = EmptyDict
    /\ messages = EmptyDict
    /\ next_id = 1
    /\ next_token = 1
    /\ due = [action |-> "", at |-> 0]
    /\ calls = 0
    /\ rejected = {}
    /\ issued = [c \in Clients |-> {EmptyDict}]
    /\ touched = EmptyDict
    /\ threads = EmptyDict
    /\ redis = [connected |-> FALSE, chat_messages |-> << >>]
    /\ unswept = EmptyDict
    /\ instances = [count |-> 0, live |-> EmptyDict, member |-> EmptyDict, written |-> EmptyDict]
    /\ resp = Response("start", "")

----------------------------------------------------------------------------
(* SpecRL: check_rate_limit called directly, for any identity and any of the *)
(* call sites' (action, limit, window) or the probe's, with sweeps (an       *)
(* /api/messages request without a session) and the clock in between.        *)

ProbeSite == <<"probe", ProbeLimit, ProbeWindow>>
RLSites == Sites \cup {ProbeSite}
\* the (identity, site) pairs the calls are made for
RLPairs == { <<"ip1", <<"send_msg", SendLimit, SendWindow>> >>,
             <<"ip1", ProbeSite>>, <<"ip2", ProbeSite>> }
RLTicks == {ProbeWindow, SendWindow - ProbeWindow}

\* the limit and the window of an action
LimitOf(action) == (CHOOSE s \in RLSites : s[1] = action)[2]
WindowOf(action) == (CHOOSE s \in RLSites : s[1] = action)[3]

NextRL ==
    \/ \E p \in RLPairs : rate_limit_call(p[1], p[2], MaxCallsRL)
    \/ api_messages("c1", "GET", EmptyDict) /\ UNCHANGED driver_vars
    \/ \E d \in RLTicks : Tick(d) /\ now' <= MaxTimeRL /\ UNCHANGED driver_vars
    \/ Tick(TrimWindow) /\ now' <= MaxTimeRL + TrimWindow /\ UNCHANGED driver_vars

\* started as a script
InitRL == Init /\ db_tables

SpecRL == InitRL /\ [][NextRL]_vars

\* the timestamps recorded for <<ident, action>> in the table RL
Recorded(RL, ident, action) ==
    IF Has(RL, ident) /\ Has(RL[ident], action) THEN RL[ident][action] ELSE << >>

\* how many of the timestamps ts are less than window old at time t
Fresh(ts, t, window) == Cardinality({k \in 1..Len(ts) : t - ts[k] < window})

\* the step is a call check_rate_limit (the direct call of the driver)
IsCheck == resp'.op = "check"

\* C1: once L calls of a pair are recorded that are all less than W old, a
\* further call is rejected; and the timestamps recorded for any pair that
\* lie inside the trailing window of length W are never more than L.
C1_LimitNeverExceeded ==
    [][ /\ IsCheck =>
            LET old == Recorded(RATE_LIMITS, resp'.ident, resp'.action)
            IN  Fresh(old, now, WindowOf(resp'.action)) >= LimitOf(resp'.action)
                    => resp'.result = "rejected"
        /\ \A ident \in DOMAIN RATE_LIMITS' : \A action \in DOMAIN RATE_LIMITS'[ident] :
              Fresh(RATE_LIMITS'[ident][action], now', WindowOf(action)) <= LimitOf(action)
      ]_vars

\* C1 witness: the sixth send inside ten seconds has been rejected
C1_Witness ==
    /\ resp.op = "check" /\ resp.action = "send_msg" /\ resp.result = "rejected"
    /\ Fresh(Recorded(RATE_LIMITS, resp.ident, "send_msg"), now, SendWindow) = SendLimit

\* C2: after a rejection for a pair, a call for that pair made W or more after
\* the earliest allowed call still recorded (or when none is recorded any
\* more) is accepted, whatever rejected attempts and sweeps came in between.
C2_AcceptedAfterWindow ==
    [][ (IsCheck /\ <<resp'.ident, resp'.action>> \in rejected) =>
            LET old == Recorded(RATE_LIMITS, resp'.ident, resp'.action)
            IN  (\A k \in 1..Len(old) :
                    (\A j \in 1..Len(old) : old[k] <= old[j])
                        => now - old[k] >= WindowOf(resp'.action))
                    => resp'.result = "allowed"
      ]_vars

\* C2 witness: a send accepted exactly W after the earliest of five recorded
\* sends, after a rejection and a sweep
C2_Witness ==
    /\ resp.op = "check" /\ resp.action = "send_msg" /\ resp.result = "allowed"
    /\ <<resp.ident, "send_msg">> \in rejected
    /\ DB_INITIALIZED
    /\ now = SendWindow

\* C4: a rejected call stores for its pair exactly the timestamps recorded
\* before that are still inside the window, in their order, and leaves every
\* other pair's entry as it was.
C4_RejectionRecordsNothing ==
    [][ (IsCheck /\ resp'.result = "rejected") =>
            LET ident == resp'.ident
                action == resp'.action
                old == Recorded(RATE_LIMITS, ident, action)
            IN  /\ DOMAIN RATE_LIMITS' = DOMAIN RATE_LIMITS
                /\ \A i \in DOMAIN RATE_LIMITS :
                      /\ DOMAIN RATE_LIMITS'[i] = DOMAIN RATE_LIMITS[i]
                      /\ \A a \in DOMAIN RATE_LIMITS[i] :
                            RATE_LIMITS'[i][a] =
                                IF <<i, a>> = <<ident, action>>
                                THEN SelectSeq(old, LAMBDA x : now - x < WindowOf(action))
                                ELSE RATE_LIMITS[i][a]
      ]_vars

\* C4 witness: a call rejected twice over while another action of the same
\* identity and another identity hold timestamps
C4_Witness ==
    /\ resp.op = "check" /\ resp.result = "rejected" /\ resp.ident = "ip1"
    /\ resp.action = "probe"
    /\ Recorded(RATE_LIMITS, "ip1", "send_msg") # << >>
    /\ Recorded(RATE_LIMITS, "ip2", "probe") # << >>
    /\ calls >= ProbeLimit + 4

----------------------------------------------------------------------------
(* SpecSteady: one pair called at exactly W/L intervals, the clock moving in *)
(* seconds, sweeps in between.                                               *)

InitSteady ==
    /\ now = 0
    /\ RATE_LIMITS = EmptyDict
    /\ LAST_SEEN = EmptyDict
    /\ ACTIVE_SESSIONS = EmptyDict
    /\ session = [c \in Clients |-> EmptyDict]
    /\ DB_INITIALIZED = FALSE
    /\ db_tables \in BOOLEAN
    /\ rooms = EmptyDict
    /\ messages = EmptyDict
    /\ next_id = 1
    /\ next_token = 1
    /\ due \in {[action |-> s[1], at |-> 0] : s \in Sites}
    /\ calls = 0
    /\ rejected = {}
    /\ issued = [c \in Clients |-> {EmptyDict}]
    /\ touched = EmptyDict
    /\ threads = EmptyDict
    /\ redis = [connected |-> FALSE, chat_messages |-> << >>]
    /\ unswept = EmptyDict
    /\ instances = [count |-> 0, live |-> EmptyDict, member |-> EmptyDict, written |-> EmptyDict]
    /\ resp = Response("start", "")

\* the call that is due: check_rate_limit for the pair, the next one W/L later
steady_call ==
    LET limit == LimitOf(due.action)
        window == WindowOf(due.action)
        rl == check_rate_limit(RATE_LIMITS, "ip1", due.action, limit, window, now)
    IN  /\ now = due.at
        /\ due' = [due EXCEPT !.at = now + window \div limit]
        /\ rejected' = IF rl.allowed THEN rejected ELSE rejected \cup { <<"ip1", due.action>> }
        /\ RATE_LIMITS' = rl.RL
        /\ resp' = [Response("check", "") EXCEPT !.ident = "ip1", !.action = due.action,
                        !.result = IF rl.allowed THEN "allowed" ELSE "rejected"]
        /\ UNCHANGED <<now, LAST_SEEN, ACTIVE_SESSIONS, session, next_token, calls, issued,
                       touched, threads, redis, unswept, instances>>
        /\ UNCHANGED db_vars

\* the clock moves a second, never past the call that is due
steady_tick ==
    now < due.at /\ Tick(1) /\ now' <= MaxTimeSteady /\ UNCHANGED driver_vars

NextSteady ==
    \/ steady_call
    \/ steady_tick
    \/ api_messages("c1", "GET", EmptyDict) /\ UNCHANGED driver_vars

SpecSteady == InitSteady /\ [][NextSteady]_vars

\* C3: every call of a sequence of calls spaced exactly W/L apart is accepted,
\* sweeps in between or not.
C3_SteadyStateAdmission ==
    resp.op = "check" => (resp.result = "allowed" /\ rejected = {})

\* C3 witness: past the first window, a call accepted on top of L - 1 calls
\* still inside the window, after a sweep
C3_Witness ==
    /\ resp.op = "check" /\ resp.result = "allowed"
    /\ now > WindowOf(resp.action)
    /\ DB_INITIALIZED
    /\ Len(Recorded(RATE_LIMITS, "ip1", resp.action)) = LimitOf(resp.action)

----------------------------------------------------------------------------
(* SpecSession: logins, logouts and /api/messages requests (GET, and POST of *)
(* a message) of two clients, one of which also replays its old cookies.     *)

NextSession ==
    \/ \E c \in Clients, u \in Usernames \cup {""} :
          login(c, u) /\ next_token' <= MaxTokens + 1 /\ keep_cookies
    \/ \E c \in Clients : logout(c) /\ keep_cookies
    \/ \E cookie \in issued["c1"] :
          replay_cookie("c1", cookie) /\ UNCHANGED driver_vars
    \/ \E c \in Clients, method \in {"GET", "POST"} :
          api_messages(c, method, [content |-> "hi"])
            /\ next_id' <= MaxMsgsSession + 1 /\ UNCHANGED driver_vars

SpecSession == Init /\ [][NextSession]_vars

\* the step is the login request of a username
IsLogin == resp'.op = "login" /\ resp'.username # ""

\* the cookie of client c carries the token the registry holds for username
HoldsToken(c, username) ==
    /\ Has(ACTIVE_SESSIONS, username)
    /\ Has(session[c], "session_id")
    /\ ACTIVE_SESSIONS[username] = session[c]["session_id"]

\* the registry is left as it was except by a login that registers and by a
\* logout, which removes the entry of the username of the client's cookie
RegistryKept ==
    /\ (resp'.op = "logout" /\ resp'.username # "")
          => ACTIVE_SESSIONS' = [u \in DOMAIN ACTIVE_SESSIONS \ {resp'.username}
                                   |-> ACTIVE_SESSIONS[u]]
    /\ ~(resp'.op = "logout" /\ resp'.username # "")
          /\ ~(IsLogin /\ resp'.result = "registered")
          => ACTIVE_SESSIONS' = ACTIVE_SESSIONS

\* a login of username by client c has registered it with a new token
Registered(c, username) ==
    /\ resp'.result = "registered"
    /\ Has(session'[c], "session_id") /\ Has(session'[c], "username")
    /\ session'[c]["username"] = username
    /\ \A u \in DOMAIN ACTIVE_SESSIONS : ACTIVE_SESSIONS[u] # session'[c]["session_id"]
    /\ ACTIVE_SESSIONS' = [u \in DOMAIN ACTIVE_SESSIONS \cup {username} |->
                              IF u = username THEN session'[c]["session_id"]
                              ELSE ACTIVE_SESSIONS[u]]

\* a login by client c has been refused and has changed nothing
Refused(c) ==
    /\ resp'.result = "IDENTITY ALREADY ACTIVE"
    /\ ACTIVE_SESSIONS' = ACTIVE_SESSIONS
    /\ session' = session

\* C5 as stated: a login of a username that is not registered succeeds, and
\* every login of a registered username is refused and leaves the registry
\* as it was, until a logout of that username.
C5_SessionExclusivity_Original ==
    [][ /\ IsLogin =>
              IF Has(ACTIVE_SESSIONS, resp'.username)
              THEN Refused(resp'.client)
              ELSE Registered(resp'.client, resp'.username)
        /\ RegistryKept
      ]_vars

\* C5 amended: a login of a username that is not registered succeeds with a
\* new token; a login of a registered username by a client whose cookie does
\* not carry the registered token is refused and changes nothing; a login by
\* a client whose cookie carries the registered token succeeds and replaces
\* the token by a new one; an entry goes only by a logout of its username.
C5_SessionExclusivity ==
    [][ /\ IsLogin =>
              IF /\ Has(ACTIVE_SESSIONS, resp'.username)
                 /\ ~HoldsToken(resp'.client, resp'.username)
              THEN Refused(resp'.client)
              ELSE Registered(resp'.client, resp'.username)
        /\ RegistryKept
      ]_vars

\* C5 witness: a username that one client held is registered by the other
\* client, after the first one's logout
C5_Witness ==
    /\ resp.op = "login" /\ resp.client = "c2" /\ resp.result = "registered"
    /\ \E cookie \in issued["c1"] :
          Has(cookie, "username") /\ cookie["username"] = resp.username
    /\ ~Has(session["c1"], "username")

\* the step is an /api/messages request of a client whose cookie has no
\* username, no token, or not the token the registry holds for the username
IsUnauthenticated ==
    /\ resp'.op = "api"
    /\ LET sess == session[resp'.client]
       IN  \/ ~Has(sess, "username")
           \/ ~Has(sess, "session_id")
           \/ ~Has(ACTIVE_SESSIONS, sess["username"])
           \/ ACTIVE_SESSIONS[sess["username"]] # sess["session_id"]

\* the step has changed the tables and the rate-limit table as a sweep does
\* and not otherwise: no message inserted or changed, a message gone only if
\* older than an hour, no timestamp recorded
OnlySwept ==
    /\ next_id' = next_id
    /\ \A i \in DOMAIN messages' : i \in DOMAIN messages /\ messages'[i] = messages[i]
    /\ \A i \in DOMAIN messages \ DOMAIN messages' :
          TimeOf(messages[i].timestamp) < now - Retention
    /\ \A ident \in Idents : \A site \in Sites :
          Recorded(RATE_LIMITS', ident, site[1]) =
              SelectSeq(Recorded(RATE_LIMITS, ident, site[1]),
                        LAMBDA x : now - x < TrimWindow)

\* C6: an /api/messages request without a valid session is answered 401 and,
\* the sweep apart, changes nothing: no message, no presence entry, no
\* rate-limit event, not the registry, not the cookie.
C6_UnauthenticatedChangesNothing ==
    [][ IsUnauthenticated =>
            /\ resp'.status = 401
            /\ OnlySwept
            /\ LAST_SEEN' = LAST_SEEN
            /\ ACTIVE_SESSIONS' = ACTIVE_SESSIONS
            /\ session' = session
      ]_vars

\* C6 witness: a POST with a replayed cookie, whose username is registered
\* with another token by now, answered 401 while a message, a presence entry
\* and a rate-limit entry exist
C6_Witness ==
    /\ resp.op = "api" /\ resp.method = "POST" /\ resp.status = 401
    /\ LET sess == session[resp.client]
       IN  /\ Has(sess, "username") /\ Has(sess, "session_id")
           /\ Has(ACTIVE_SESSIONS, sess["username"])
           /\ ACTIVE_SESSIONS[sess["username"]] # sess["session_id"]
    /\ DOMAIN messages # {}
    /\ DOMAIN LAST_SEEN # {}
    /\ DOMAIN RATE_LIMITS # {}

----------------------------------------------------------------------------
(* SpecSend: one client logs in and sends (a text or nothing), reads and     *)
(* deletes in the global room, the clock moving a second.                    *)

NextSend ==
    \/ login("c1", "alice") /\ session["c1"] = EmptyDict /\ UNCHANGED driver_vars
    \/ api_messages("c1", "GET", EmptyDict) /\ UNCHANGED driver_vars
    \/ \E content \in {"hi", ""} :
          api_messages("c1", "POST", [content |-> content])
            /\ next_id' <= MaxMsgsSend + 1 /\ UNCHANGED driver_vars
    \/ api_messages("c1", "DELETE", [message_id |-> 1]) /\ UNCHANGED driver_vars
    \/ Tick(1) /\ now' <= MaxTimeSend /\ UNCHANGED driver_vars

SpecSend == Init /\ [][NextSend]_vars

\* C7 as stated: a send or delete the limiter rejects is answered 429 without
\* any side effect: the messages, the presence table and the recorded
\* timestamps are as before the request (the sweep apart).
C7_RateLimitedNoSideEffect ==
    [][ (resp'.op = "api" /\ resp'.status = 429) =>
            /\ OnlySwept
            /\ LAST_SEEN' = LAST_SEEN
      ]_vars

----------------------------------------------------------------------------
(* SpecDelete: two clients log in under their names, send, read and delete.  *)

NextDelete ==
    \/ login("c1", "alice") /\ next_token' <= MaxTokens + 1 /\ UNCHANGED driver_vars
    \/ login("c2", "bob") /\ next_token' <= MaxTokens + 1 /\ UNCHANGED driver_vars
    \/ \E c \in Clients, method \in {"GET", "POST"} :
          api_messages(c, method, [content |-> "hi"])
            /\ next_id' <= MaxMsgsDelete + 1 /\ UNCHANGED driver_vars
    \/ \E c \in Clients, message_id \in 0..MaxMsgsDelete :
          api_messages(c, "DELETE", [message_id |-> message_id])
            /\ calls < MaxDeletes /\ calls' = calls + 1
            /\ UNCHANGED <<due, rejected, issued, touched, threads, redis, unswept, instances>>

SpecDelete == Init /\ [][NextDelete]_vars

\* the step is a DELETE of an authenticated client that the limiter admitted
IsAdmittedDelete ==
    /\ resp'.op = "api" /\ resp'.method = "DELETE"
    /\ resp'.status # 401 /\ resp'.status # 429

\* the messages the sweep of a request at time t leaves of ms
AfterSweep(ms, t) ==
    [i \in {j \in DOMAIN ms : ~(TimeOf(ms[j].timestamp) < t - Retention)} |-> ms[i]]

\* an id that is gone stays gone, and a listing holds only messages of the table
GoneStaysGone ==
    /\ \A i \in 1..(next_id - 1) : i \notin DOMAIN messages => i \notin DOMAIN messages'
    /\ \A k \in 1..Len(resp'.ids) : resp'.ids[k] \in DOMAIN messages'

\* C8 as stated: an admitted DELETE of message id m removes m if and only if
\* m exists and its author is the requester; 404 if m does not exist, 403 if
\* the author differs, the table unchanged in both cases; nothing but m goes.
C8_DeletionOwnership_Original ==
    [][ /\ IsAdmittedDelete =>
            LET m == resp'.message_id
                before == AfterSweep(messages, now)
            IN  IF ~Has(before, m)
                THEN resp'.status = 404 /\ messages' = before
                ELSE IF before[m].username # resp'.username
                THEN resp'.status = 403 /\ messages' = before
                ELSE /\ resp'.status = 200 /\ resp'.result = "deleted"
                     /\ messages' = [i \in DOMAIN before \ {m} |-> before[i]]
        /\ GoneStaysGone
      ]_vars

\* C8 amended: as stated for a message_id that is not zero; a DELETE whose
\* message_id is zero (or missing) is answered 400 and leaves the table
\* unchanged.
C8_DeletionOwnership ==
    [][ /\ IsAdmittedDelete =>
            LET m == resp'.message_id
                before == AfterSweep(messages, now)
            IN  IF m = 0
                THEN resp'.status = 400 /\ messages' = before
                ELSE IF ~Has(before, m)
                THEN resp'.status = 404 /\ messages' = before
                ELSE IF before[m].username # resp'.username
                THEN resp'.status = 403 /\ messages' = before
                ELSE /\ resp'.status = 200 /\ resp'.result = "deleted"
                     /\ messages' = [i \in DOMAIN before \ {m} |-> before[i]]
        /\ GoneStaysGone
      ]_vars

\* C8 witness: after two DELETE requests or more, alice's message 1 is gone,
\* bob's message 2 is still there and a read lists it alone
C8_Witness ==
    /\ resp.op = "api" /\ resp.method = "GET" /\ resp.ids = <<2>>
    /\ next_id = 3
    /\ DOMAIN messages = {2} /\ messages[2].username = "bob"
    /\ calls >= 2

----------------------------------------------------------------------------
(* SpecRetention: one client logs in, sends and reads in the global room     *)
(* while the clock moves by 59, 60 and 61 minutes.                           *)

RetentionTicks == {Retention - 60, Retention, Retention + 60}

NextRetention ==
    \/ login("c1", "alice") /\ next_token' <= MaxTokens + 1 /\ UNCHANGED driver_vars
    \/ \E method \in {"GET", "POST"} :
          api_messages("c1", method, [content |-> "hi"])
            /\ next_id' <= MaxMsgsRetention + 1 /\ UNCHANGED driver_vars
    \/ \E d \in RetentionTicks : Tick(d) /\ now' <= MaxTimeRetention /\ UNCHANGED driver_vars

SpecRetention == Init /\ [][NextRetention]_vars

\* C9: the sweep of a request at time now deletes exactly the messages whose
\* timestamp is before now - 1h (one exactly at the cutoff stays), leaves the
\* others as they were, and the listing of the request holds none it deleted.
C9_MessageRetention ==
    [][ resp'.op = "api" =>
            /\ \A i \in DOMAIN messages :
                  /\ i \in DOMAIN messages' <=>
                        ~(TimeOf(messages[i].timestamp) < now - Retention)
                  /\ i \in DOMAIN messages' => messages'[i] = messages[i]
            /\ \A k \in 1..Len(resp'.ids) :
                  ~(TimeOf(messages'[resp'.ids[k]].timestamp) < now - Retention)
      ]_vars

\* C9 witness: a read has left the message that is exactly one hour old and
\* lists it, the message of 61 minutes before it is gone
C9_Witness ==
    /\ resp.op = "api" /\ resp.method = "GET" /\ resp.ids = <<2>>
    /\ now - TimeOf(messages[2].timestamp) = Retention
    /\ next_id = 3
    /\ 1 \notin DOMAIN messages

----------------------------------------------------------------------------
(* SpecRooms: rooms are created and joined while the clock moves by 25       *)
(* minutes; an /api/messages request carries the sweep.                      *)

RoomTicks == {1500}

NextRooms ==
    \/ \E c \in Clients : create_room(c, "room") /\ UNCHANGED driver_vars
    \/ \E code \in Codes : join_room("c2", ToString(code)) /\ UNCHANGED driver_vars
    \/ api_messages("c1", "GET", EmptyDict) /\ UNCHANGED driver_vars
    \/ \E d \in RoomTicks : Tick(d) /\ now' <= MaxTimeRooms /\ UNCHANGED driver_vars

SpecRooms == Init /\ [][NextRooms]_vars

\* C10 as stated: the sweep of a request at time now deletes a room if and
\* only if its created_at is before now - 1h; a room created less than an
\* hour before stays (and can be joined by its code).
C10_RoomExpiry ==
    [][ (resp'.op = "api" /\ DB_INITIALIZED) =>
            \A code \in DOMAIN rooms :
                code \in DOMAIN rooms' <=>
                    ~(TimeOf(rooms[code].created_at) < now - Retention)
      ]_vars

----------------------------------------------------------------------------
(* SpecRead: a client, logged in as alice or not yet, creates a private room *)
(* and moves between it and the global room, sending and reading, while the  *)
(* clock moves by 59 or 61 minutes.                                          *)

ReadTicks == {Retention - 60, Retention + 60}

NextRead ==
    \/ login("c1", "alice") /\ session["c1"] = EmptyDict /\ UNCHANGED driver_vars
    \/ create_room("c1", "room")
          /\ calls < MaxRoomsRead /\ calls' = calls + 1
          /\ UNCHANGED <<due, rejected, issued, touched, threads, redis, unswept, instances>>
    \/ join_global("c1") /\ UNCHANGED driver_vars
    \/ api_messages("c1", "POST", [content |-> "hi"])
          /\ next_id' <= MaxMsgsRead + 1 /\ UNCHANGED driver_vars
    \/ api_messages("c1", "GET", EmptyDict) /\ UNCHANGED driver_vars
    \/ \E d \in ReadTicks : Tick(d) /\ now' <= MaxTimeRead /\ UNCHANGED driver_vars

SpecRead == Init /\ [][NextRead]_vars

\* C11: every /api/messages request, of any method and authenticated or not,
\* has swept before anything else: after it the table holds no message older
\* than one hour at the time of the request, a GET lists none, and every
\* message a GET lists is of the caller's current room (room_code NULL, the
\* global room, when the session has no room code).
C11_SweepPrecedesRead ==
    [][ resp'.op = "api" =>
            /\ \A i \in DOMAIN messages' :
                  ~(TimeOf(messages'[i].timestamp) < now - Retention)
            /\ \A k \in 1..Len(resp'.ids) :
                  /\ resp'.ids[k] \in DOMAIN messages'
                  /\ ~(TimeOf(messages'[resp'.ids[k]].timestamp) < now - Retention)
                  /\ messages'[resp'.ids[k]].room_code =
                        Get(session[resp'.client], "room_code", NULL)
            /\ resp'.result = "messages" =>
                  \A i \in DOMAIN messages' :
                      messages'[i].room_code = Get(session[resp'.client], "room_code", NULL)
                          => \E k \in 1..Len(resp'.ids) : resp'.ids[k] = i
      ]_vars

\* C11 witness: a read in a private room lists the room's message and not
\* the one of the global room, after the sweep has removed an older message
C11_Witness ==
    /\ resp.op = "api" /\ resp.method = "GET" /\ Len(resp.ids) = 1
    /\ messages[resp.ids[1]].room_code # NULL
    /\ \E i \in DOMAIN messages : messages[i].room_code = NULL
    /\ \E i \in 1..(next_id - 1) : i \notin DOMAIN messages

\* C18 as stated: after the sweep of a request no room of the presence table
\* holds an entry that is 10 seconds old or older.
C18_SweepPurgesPresence ==
    [][ resp'.op = "api" =>
            \A room_id \in DOMAIN LAST_SEEN' : \A u \in DOMAIN LAST_SEEN'[room_id] :
                now - LAST_SEEN'[room_id][u] < PresenceWindow
      ]_vars

----------------------------------------------------------------------------
(* SpecPresence: update_presence and get_active_count called directly, for   *)
(* two rooms and two usernames, the clock moving by five seconds.            *)

PresenceRooms == {"global", "100000"}
PresenceTick == 5

\* one call update_presence(room_id, username)
presence_touch(room_id, username) ==
    /\ LAST_SEEN' = update_presence(LAST_SEEN, room_id, username, now)
    /\ touched' = SetKey(touched, room_id,
                         SetKey(Get(touched, room_id, EmptyDict), username, now))
    /\ resp' = [Response("touch", "") EXCEPT !.room_id = room_id, !.username = username]
    /\ UNCHANGED <<now, RATE_LIMITS, ACTIVE_SESSIONS, session, next_token>>
    /\ UNCHANGED db_vars

\* one call get_active_count(room_id)
presence_count(room_id) ==
    LET r == get_active_count(LAST_SEEN, room_id, now)
    IN  /\ LAST_SEEN' = r.LS
        /\ resp' = [Response("count", "") EXCEPT !.room_id = room_id, !.active_count = r.count]
        /\ UNCHANGED <<now, RATE_LIMITS, ACTIVE_SESSIONS, session, next_token>>
        /\ UNCHANGED db_vars

NextPresence ==
    \/ \E room_id \in PresenceRooms, username \in Usernames :
          presence_touch(room_id, username)
            /\ calls < MaxTouches /\ calls' = calls + 1
            /\ UNCHANGED <<due, rejected, issued, threads, redis, unswept, instances>>
    \/ \E room_id \in PresenceRooms :
          presence_count(room_id) /\ UNCHANGED driver_vars
    \/ Tick(PresenceTick) /\ now' <= MaxTimePresence /\ UNCHANGED driver_vars

SpecPresence == Init /\ [][NextPresence]_vars

\* the usernames whose last touch of room_id is less than 10 seconds old
RecentlyTouched(room_id) ==
    {u \in DOMAIN Get(touched, room_id, EmptyDict) :
        now - touched[room_id][u] < PresenceWindow}

\* C12: get_active_count(room) returns the number of usernames whose last
\* touch of the room is less than 10 seconds old: 1 for a single user touched
\* less than 10 seconds ago, 0 once 10 seconds or more have passed, and a new
\* touch starts the 10 seconds again.
C12_PresenceDecay ==
    [][ resp'.op = "count" =>
            resp'.active_count = Cardinality(RecentlyTouched(resp'.room_id))
      ]_vars

\* C12 witness: a room that alice alone touched, twice, the last time exactly
\* 10 seconds ago, is counted 0
C12_Witness ==
    /\ resp.op = "count" /\ resp.active_count = 0
    /\ calls >= 2
    /\ Has(touched, resp.room_id)
    /\ DOMAIN touched[resp.room_id] = {"alice"}
    /\ now - touched[resp.room_id]["alice"] = PresenceWindow

----------------------------------------------------------------------------
(* SpecCreate: create_room requests of two clients run as parallel threads,  *)
(* a thread taking the SELECT and the INSERT of lines 555 and 557 as two     *)
(* steps; /api/messages requests sweep in between and the clock moves by 61  *)
(* minutes.  The table is keyed by code: a second row of a code would show   *)
(* as the replacement of the first.                                          *)

\* a plausible slip: the column code without PRIMARY KEY (the INSERT always succeeds)
insert_room_unchecked(rs, code, room_name, t) ==
    [ok |-> TRUE,
     rooms |-> SetKey(rs, code, [name |-> room_name, created_at |-> CURRENT_TIMESTAMP(t)])]

\* INSERT INTO rooms (code, name) at time t: code is the PRIMARY KEY, the
\* INSERT of a code a row holds raises sqlite3.IntegrityError
insert_room(rs, code, room_name, t) ==
    IF Has(rs, code) THEN [ok |-> FALSE, rooms |-> rs]
    ELSE [ok |-> TRUE,
          rooms |-> SetKey(rs, code, [name |-> room_name, created_at |-> CURRENT_TIMESTAMP(t)])]

\* the steps of a thread leave these alone
thread_frame == <<now, RATE_LIMITS, LAST_SEEN, ACTIVE_SESSIONS, next_token,
                  DB_INITIALIZED, db_tables, messages, next_id,
                  due, rejected, issued, touched, redis, unswept, instances>>

\* lines 547-549: the request arrives with its room_name
create_room_begin(c, room_name) ==
    /\ ~Has(threads, c)
    /\ room_name # ""
    /\ threads' = SetKey(threads, c, [pc |-> "select", room_name |-> room_name, code |-> NULL])
    /\ resp' = Response("create_room begin", c)
    /\ UNCHANGED <<rooms, session>>
    /\ UNCHANGED thread_frame

\* lines 553-556 and 561: a code is drawn and looked up; the loop goes round
\* when a room holds it
create_room_select(c) ==
    /\ Has(threads, c) /\ threads[c].pc = "select"
    /\ \E code \in Codes :
          IF ~db_tables
          THEN /\ threads' = DelKey(threads, c)
               /\ resp' = [Response("create_room", c) EXCEPT !.status = 500]
          ELSE IF Has(rooms, code)
          THEN /\ UNCHANGED threads
               /\ resp' = [Response("create_room select", c) EXCEPT !.result = "exists"]
          ELSE /\ threads' = [threads EXCEPT ![c].pc = "insert", ![c].code = code]
               /\ resp' = [Response("create_room select", c) EXCEPT !.result = "free"]
    /\ UNCHANGED <<rooms, session>>
    /\ UNCHANGED thread_frame

\* lines 557-566: the INSERT and its commit, then the session and the redirect
create_room_insert(c) ==
    LET th == threads[c]
        ins == insert_room(rooms, th.code, th.room_name, now)
    IN  /\ Has(threads, c) /\ th.pc = "insert"
        /\ threads' = DelKey(threads, c)
        /\ IF ~ins.ok
           THEN /\ resp' = [Response("create_room", c) EXCEPT !.status = 500]
                /\ UNCHANGED <<rooms, session>>
           ELSE /\ rooms' = ins.rooms
                /\ session' = [session EXCEPT ![c] =
                      SetKey(SetKey(SetKey(@, "room_type", "private"), "room_code", th.code),
                             "room_name", th.room_name)]
                /\ resp' = [Response("create_room", c) EXCEPT !.status = 302,
                                                              !.result = "created"]
        /\ UNCHANGED thread_frame

RoomNames == [c1 |-> "room one", c2 |-> "room two"]

NextCreate ==
    \/ \E c \in Clients :
          create_room_begin(c, RoomNames[c]) /\ calls < MaxCreates /\ calls' = calls + 1
    \/ \E c \in Clients : create_room_select(c) /\ UNCHANGED calls
    \/ \E c \in Clients : create_room_insert(c) /\ UNCHANGED calls
    \/ api_messages("c1", "GET", EmptyDict) /\ UNCHANGED driver_vars
    \/ Tick(Retention + 60) /\ now' <= Retention + 60 /\ UNCHANGED driver_vars

SpecCreate == InitRL /\ [][NextCreate]_vars

\* C13: a room keeps its code to itself as long as it is live: no step
\* replaces the row of a code that a room holds before and after the step,
\* and a create_room request reported as successful has been given a code
\* that no live room held.
C13_RoomCodeUnique ==
    [][ /\ \A code \in DOMAIN rooms \cap DOMAIN rooms' : rooms'[code] = rooms[code]
        /\ (resp'.op = "create_room" /\ resp'.result = "created") =>
              LET code == session'[resp'.client]["room_code"]
              IN  /\ ~Has(rooms, code)
                  /\ Has(rooms', code)
                  /\ rooms'[code].name = RoomNames[resp'.client]
      ]_vars

\* C13 witness: a create_room that found the code free was refused at its
\* INSERT, the other client's room holding the code by then
C13_Witness ==
    /\ resp.op = "create_room" /\ resp.status = 500
    /\ \E code \in DOMAIN rooms :
          /\ rooms[code].name # RoomNames[resp.client]
          /\ Get(session[resp.client], "room_code", NULL) # code

----------------------------------------------------------------------------
(* SpecOrder: alice sends messages in the global room and in a private room  *)
(* she creates, the clock moving by a second after a message was sent; she   *)
(* may delete the second message, and reads once all are sent.               *)

NextOrder ==
    \/ login("c1", "alice") /\ session["c1"] = EmptyDict /\ UNCHANGED driver_vars
    \/ create_room("c1", "room") /\ rooms = EmptyDict /\ UNCHANGED driver_vars
    \/ join_global("c1") /\ UNCHANGED driver_vars
    \/ api_messages("c1", "POST", [content |-> "hi"])
          /\ next_id' <= MaxMsgsOrder + 1 /\ UNCHANGED driver_vars
    \/ api_messages("c1", "DELETE", [message_id |-> 2])
          /\ Has(messages, 2) /\ UNCHANGED driver_vars
    \/ api_messages("c1", "GET", EmptyDict)
          /\ next_id = MaxMsgsOrder + 1 /\ UNCHANGED driver_vars
    \/ Tick(1) /\ resp.result = "sent" /\ now' <= MaxTimeOrder /\ UNCHANGED driver_vars

SpecOrder == InitRL /\ [][NextOrder]_vars

\* C14: a GET lists every message of the caller's room once, in
\* non-decreasing order of timestamp; so messages of strictly increasing
\* timestamps come in the order of their insertion, whatever was sent to other
\* rooms or deleted in between.
C14_ReadOrdering ==
    [][ (resp'.op = "api" /\ resp'.result = "messages") =>
            LET ids == resp'.ids
                room_code == Get(session[resp'.client], "room_code", NULL)
            IN  /\ {ids[k] : k \in 1..Len(ids)} = InRoom(messages', room_code)
                /\ Len(ids) = Cardinality(InRoom(messages', room_code))
                /\ \A k \in 1..Len(ids) : \A l \in (k + 1)..Len(ids) :
                      /\ TimeOf(messages'[ids[k]].timestamp)
                            <= TimeOf(messages'[ids[l]].timestamp)
                      /\ TimeOf(messages'[ids[k]].timestamp)
                            < TimeOf(messages'[ids[l]].timestamp) => ids[k] < ids[l]
      ]_vars

\* C14 witness: a read lists three messages of strictly increasing timestamps
\* in the order they were sent; a fourth message was sent in between them,
\* to the other room or deleted since
C14_Witness ==
    /\ resp.op = "api" /\ resp.method = "GET" /\ Len(resp.ids) = 3
    /\ resp.ids[1] < resp.ids[2] /\ resp.ids[2] < resp.ids[3]
    /\ TimeOf(messages[resp.ids[1]].timestamp) < TimeOf(messages[resp.ids[2]].timestamp)
    /\ TimeOf(messages[resp.ids[2]].timestamp) < TimeOf(messages[resp.ids[3]].timestamp)
    /\ resp.ids[3] - resp.ids[1] = 3

----------------------------------------------------------------------------
(* SpecJoin: one client creates a room; another joins by the code of a room, *)
(* by a code no room has or with no code, and leaves; the clock moves by     *)
(* half a minute.                                                            *)

JoinCodes == {ToString(100000), "424242", ""}
JoinTick == 30

NextJoin ==
    \/ create_room("c1", "room") /\ rooms = EmptyDict /\ UNCHANGED driver_vars
    \/ \E code \in JoinCodes : join_room("c2", code) /\ UNCHANGED driver_vars
    \/ leave_room("c2") /\ UNCHANGED driver_vars
    \/ Tick(JoinTick) /\ now' <= MaxTimeJoin /\ UNCHANGED driver_vars

SpecJoin == InitRL /\ [][NextJoin]_vars

\* room_type, room_code and room_name of a session
Affiliation(sess) ==
    [k \in {"room_type", "room_code", "room_name"} \cap DOMAIN sess |-> sess[k]]

\* the join_fail timestamps of ident that are inside the trailing minute
JoinCounted(ident) ==
    SelectSeq(Recorded(RATE_LIMITS, ident, "join_fail"), LAMBDA x : now - x < JoinWindow)

\* C15: a join attempt of an address that has 5 counted attempts inside the
\* trailing 60 seconds is refused with the lock-out message, whatever the
\* code, and is not counted; an admitted attempt with a code no room has is
\* answered as invalid and is counted; in both cases the caller's room
\* affiliation stays as it was.
C15_JoinFailureThrottle ==
    [][ (resp'.op = "join_room" /\ resp'.room_id # "") =>
            LET ip == resp'.ident
                c == resp'.client
                nonexistent == \A k \in DOMAIN rooms : ToString(k) # resp'.room_id
            IN  IF Len(JoinCounted(ip)) >= JoinLimit
                THEN /\ resp'.result = "SECURITY LOCKOUT // TOO MANY FAILED ATTEMPTS"
                     /\ Affiliation(session'[c]) = Affiliation(session[c])
                     /\ Recorded(RATE_LIMITS', ip, "join_fail") = JoinCounted(ip)
                ELSE /\ resp'.result # "SECURITY LOCKOUT // TOO MANY FAILED ATTEMPTS"
                     /\ nonexistent =>
                           /\ resp'.result = "INVALID FREQUENCY CODE"
                           /\ Affiliation(session'[c]) = Affiliation(session[c])
                           /\ Recorded(RATE_LIMITS', ip, "join_fail")
                                 = Append(JoinCounted(ip), now)
      ]_vars

\* C15 witness: a client that is in a room is locked out on an attempt with
\* the code of a live room, after attempts with a code no room has; it is
\* still in the room it was in
C15_Witness ==
    /\ resp.op = "join_room"
    /\ resp.result = "SECURITY LOCKOUT // TOO MANY FAILED ATTEMPTS"
    /\ \E k \in DOMAIN rooms : ToString(k) = resp.room_id
    /\ Has(session["c2"], "room_code")
    /\ Len(Recorded(RATE_LIMITS, "ip2", "join_fail")) = JoinLimit
    /\ now > 0

----------------------------------------------------------------------------
(* check_rate_limit as a thread: one step per statement.  A thread keeps its *)
(* locals in threads[t]; stored tells whether its list timestamps is the     *)
(* very list object that RATE_LIMITS[ident][action] holds (after line 64,    *)
(* until another list is stored there), since an append to that object shows *)
(* in both.                                                                  *)

\* the steps of check_rate_limit and of the trimming loop leave these alone
limiter_frame == <<now, LAST_SEEN, ACTIVE_SESSIONS, session, next_token,
                   DB_INITIALIZED, db_tables, rooms, messages, next_id,
                   due, rejected, issued, touched, redis, unswept, instances>>

\* RATE_LIMITS[ident][action] can be read
HasList(RL, ident, action) == Has(RL, ident) /\ Has(RL[ident], action)

\* the threads' locals once the list at <<ident, action>> is another object
\* than before
Unshared(ths, ident, action) ==
    [t \in DOMAIN ths |->
        IF ths[t].op = "check_rate_limit" /\ ths[t].ident = ident /\ ths[t].action = action
        THEN [ths[t] EXCEPT !.stored = FALSE] ELSE ths[t]]

\* the thread ends with an exception (the request ends 500)
raise(t, error) ==
    /\ threads' = DelKey(threads, t)
    /\ resp' = [Response(threads[t].op, t) EXCEPT !.status = 500, !.result = error,
                    !.ident = threads[t].ident, !.action = threads[t].action]
    /\ UNCHANGED RATE_LIMITS

\* line 53: the call, now = time.time()
check_begin(t, ident, site) ==
    /\ ~Has(threads, t)
    /\ threads' = SetKey(threads, t,
            [op |-> "check_rate_limit", pc |-> "l55", ident |-> ident, action |-> site[1],
             limit |-> site[2], window |-> site[3], now |-> now,
             timestamps |-> << >>, stored |-> FALSE])
    /\ resp' = [Response("check begin", t) EXCEPT !.ident = ident, !.action = site[1]]
    /\ UNCHANGED RATE_LIMITS
    /\ UNCHANGED limiter_frame

\* lines 55-56
check_l55(t) ==
    /\ Has(threads, t) /\ threads[t].op = "check_rate_limit" /\ threads[t].pc = "l55"
    /\ RATE_LIMITS' = IF Has(RATE_LIMITS, threads[t].ident) THEN RATE_LIMITS
                       ELSE SetKey(RATE_LIMITS, threads[t].ident, EmptyDict)
    /\ threads' = [threads EXCEPT ![t].pc = "l58"]
    /\ resp' = Response("check l55", t)
    /\ UNCHANGED limiter_frame

\* lines 58-59
check_l58(t) ==
    LET th == threads[t]
    IN  /\ Has(threads, t) /\ th.op = "check_rate_limit" /\ th.pc = "l58"
        /\ IF ~Has(RATE_LIMITS, th.ident)
           THEN raise(t, "KeyError")
           ELSE IF Has(RATE_LIMITS[th.ident], th.action)
           THEN /\ threads' = [threads EXCEPT ![t].pc = "l62"]
                /\ resp' = Response("check l58", t)
                /\ UNCHANGED RATE_LIMITS
           ELSE /\ RATE_LIMITS' = SetKey(RATE_LIMITS, th.ident,
                                         SetKey(RATE_LIMITS[th.ident], th.action, << >>))
                /\ threads' = [Unshared(threads, th.ident, th.action) EXCEPT ![t].pc = "l62"]
                /\ resp' = Response("check l58", t)
        /\ UNCHANGED limiter_frame

\* lines 62-63: the list is read and filtered into a new list
check_l62(t) ==
    LET th == threads[t]
    IN  /\ Has(threads, t) /\ th.op = "check_rate_limit" /\ th.pc = "l62"
        /\ IF ~HasList(RATE_LIMITS, th.ident, th.action)
           THEN raise(t, "KeyError")
           ELSE /\ threads' = [threads EXCEPT ![t].pc = "l64", ![t].stored = FALSE,
                       ![t].timestamps =
                           InWindow(RATE_LIMITS[th.ident][th.action], th.now, th.window)]
                /\ resp' = Response("check l62", t)
                /\ UNCHANGED RATE_LIMITS
        /\ UNCHANGED limiter_frame

\* line 64: the new list is stored
check_l64(t) ==
    LET th == threads[t]
    IN  /\ Has(threads, t) /\ th.op = "check_rate_limit" /\ th.pc = "l64"
        /\ IF ~Has(RATE_LIMITS, th.ident)
           THEN raise(t, "KeyError")
           ELSE /\ RATE_LIMITS' = SetKey(RATE_LIMITS, th.ident,
                                         SetKey(RATE_LIMITS[th.ident], th.action, th.timestamps))
                /\ threads' = [Unshared(threads, th.ident, th.action) EXCEPT
                                  ![t].pc = "l66", ![t].stored = TRUE]
                /\ resp' = Response("check l64", t)
        /\ UNCHANGED limiter_frame

\* lines 66-67: the length of the thread's list decides
check_l66(t) ==
    LET th == threads[t]
    IN  /\ Has(threads, t) /\ th.op = "check_rate_limit" /\ th.pc = "l66"
        /\ IF Len(th.timestamps) >= th.limit
           THEN /\ threads' = DelKey(threads, t)
                /\ resp' = [Response("check", t) EXCEPT !.ident = th.ident,
                                !.action = th.action, !.result = "rejected"]
           ELSE /\ threads' = [threads EXCEPT ![t].pc = "l69"]
                /\ resp' = Response("check l66", t)
        /\ UNCHANGED RATE_LIMITS
        /\ UNCHANGED limiter_frame

\* lines 69-70: now is appended to the list RATE_LIMITS holds
check_l69(t) ==
    LET th == threads[t]
        shares(u) == /\ u # t /\ threads[u].op = "check_rate_limit" /\ threads[u].stored
                     /\ threads[u].ident = th.ident /\ threads[u].action = th.action
    IN  /\ Has(threads, t) /\ th.op = "check_rate_limit" /\ th.pc = "l69"
        /\ IF ~HasList(RATE_LIMITS, th.ident, th.action)
           THEN raise(t, "KeyError")
           ELSE /\ RATE_LIMITS' = SetKey(RATE_LIMITS, th.ident,
                      SetKey(RATE_LIMITS[th.ident], th.action,
                             Append(RATE_LIMITS[th.ident][th.action], th.now)))
                /\ threads' = [u \in DOMAIN threads \ {t} |->
                      IF shares(u)
                      THEN [threads[u] EXCEPT !.timestamps = Append(@, th.now)]
                      ELSE threads[u]]
                /\ resp' = [Response("check", t) EXCEPT !.ident = th.ident,
                                !.action = th.action, !.result = "allowed"]
        /\ UNCHANGED limiter_frame

----------------------------------------------------------------------------
(* The trimming loop of cleanup_old_messages (lines 161-171) as a thread.    *)

\* list(d.keys()): the keys of a dict in the order the loop takes them
RECURSIVE KeyOrders(_)
KeyOrders(S) ==
    IF S = {} THEN { << >> }
    ELSE UNION { { <<k>> \o rest : rest \in KeyOrders(S \ {k}) } : k \in S }

\* lines 161-162: now = time.time(), the identities are listed
cleanup_begin(t) ==
    /\ ~Has(threads, t)
    /\ \E idents \in KeyOrders(DOMAIN RATE_LIMITS) :
          threads' = SetKey(threads, t,
              [op |-> "cleanup_old_messages", pc |-> "l162", now |-> now, idents |-> idents,
               actions |-> << >>, ident |-> "", action |-> "", empty |-> TRUE])
    /\ resp' = Response("cleanup begin", t)
    /\ UNCHANGED RATE_LIMITS
    /\ UNCHANGED limiter_frame

\* lines 162-164: the next identity, its actions are listed; the loop ends
\* after the last
cleanup_l162(t) ==
    LET th == threads[t]
    IN  /\ Has(threads, t) /\ th.op = "cleanup_old_messages" /\ th.pc = "l162"
        /\ IF th.idents = << >>
           THEN /\ threads' = DelKey(threads, t)
                /\ resp' = [Response("cleanup", t) EXCEPT !.result = "swept"]
                /\ UNCHANGED RATE_LIMITS
           ELSE IF ~Has(RATE_LIMITS, Head(th.idents))
           THEN raise(t, "KeyError")
           ELSE /\ \E actions \in KeyOrders(DOMAIN RATE_LIMITS[Head(th.idents)]) :
                      threads' = [threads EXCEPT ![t].pc = "l164", ![t].ident = Head(th.idents),
                                     ![t].idents = Tail(th.idents), ![t].empty = TRUE,
                                     ![t].actions = actions]
                /\ resp' = Response("cleanup l162", t)
                /\ UNCHANGED RATE_LIMITS
        /\ UNCHANGED limiter_frame

\* lines 164-165: the next action, its list is replaced by the filtered one
cleanup_l165(t) ==
    LET th == threads[t]
        action == Head(th.actions)
    IN  /\ Has(threads, t) /\ th.op = "cleanup_old_messages" /\ th.pc = "l164"
        /\ th.actions # << >>
        /\ IF ~HasList(RATE_LIMITS, th.ident, action)
           THEN raise(t, "KeyError")
           ELSE /\ RATE_LIMITS' = SetKey(RATE_LIMITS, th.ident,
                      SetKey(RATE_LIMITS[th.ident], action,
                             SelectSeq(RATE_LIMITS[th.ident][action],
                                       LAMBDA x : th.now - x < TrimWindow)))
                /\ threads' = [Unshared(threads, th.ident, action) EXCEPT
                                  ![t].pc = "l166", ![t].action = action,
                                  ![t].actions = Tail(th.actions)]
                /\ resp' = Response("cleanup l165", t)
        /\ UNCHANGED limiter_frame

\* lines 166-168: is the list empty
cleanup_l166(t) ==
    LET th == threads[t]
    IN  /\ Has(threads, t) /\ th.op = "cleanup_old_messages" /\ th.pc = "l166"
        /\ IF ~HasList(RATE_LIMITS, th.ident, th.action)
           THEN raise(t, "KeyError")
           ELSE /\ threads' = IF RATE_LIMITS[th.ident][th.action] # << >>
                              THEN [threads EXCEPT ![t].pc = "l164", ![t].empty = FALSE]
                              ELSE [threads EXCEPT ![t].pc = "l169"]
                /\ resp' = Response("cleanup l166", t)
                /\ UNCHANGED RATE_LIMITS
        /\ UNCHANGED limiter_frame

\* line 169: del RATE_LIMITS[ident][action]
cleanup_l169(t) ==
    LET th == threads[t]
    IN  /\ Has(threads, t) /\ th.op = "cleanup_old_messages" /\ th.pc = "l169"
        /\ IF ~HasList(RATE_LIMITS, th.ident, th.action)
           THEN raise(t, "KeyError")
           ELSE /\ RATE_LIMITS' = SetKey(RATE_LIMITS, th.ident,
                                         DelKey(RATE_LIMITS[th.ident], th.action))
                /\ threads' = [Unshared(threads, th.ident, th.action) EXCEPT ![t].pc = "l164"]
                /\ resp' = Response("cleanup l169", t)
        /\ UNCHANGED limiter_frame

\* lines 170-171, after the last action: del RATE_LIMITS[ident] if empty
cleanup_l170(t) ==
    LET th == threads[t]
        others == [u \in DOMAIN threads |->
                      IF threads[u].op = "check_rate_limit" /\ threads[u].ident = th.ident
                      THEN [threads[u] EXCEPT !.stored = FALSE] ELSE threads[u]]
    IN  /\ Has(threads, t) /\ th.op = "cleanup_old_messages" /\ th.pc = "l164"
        /\ th.actions = << >>
        /\ IF ~th.empty
           THEN /\ threads' = [threads EXCEPT ![t].pc = "l162"]
                /\ resp' = Response("cleanup l170", t)
                /\ UNCHANGED RATE_LIMITS
           ELSE IF ~Has(RATE_LIMITS, th.ident)
           THEN raise(t, "KeyError")
           ELSE /\ RATE_LIMITS' = DelKey(RATE_LIMITS, th.ident)
                /\ threads' = [others EXCEPT ![t].pc = "l162"]
                /\ resp' = Response("cleanup l171", t)
        /\ UNCHANGED limiter_frame

----------------------------------------------------------------------------
(* SpecRLThreads: two threads call check_rate_limit for the same identity    *)
(* and action (the probe's limit and window), their statements interleaving. *)

Threads == {"t1", "t2"}

check_step(t) ==
    \/ check_l55(t)
    \/ check_l58(t)
    \/ check_l62(t)
    \/ check_l64(t)
    \/ check_l66(t)
    \/ check_l69(t)

NextRLThreads ==
    \/ \E t \in Threads :
          check_begin(t, "ip1", ProbeSite) /\ calls < MaxCallsThreads /\ calls' = calls + 1
    \/ \E t \in Threads : check_l55(t) /\ UNCHANGED calls
    \/ \E t \in Threads : check_l58(t) /\ UNCHANGED calls
    \/ \E t \in Threads : check_l62(t) /\ UNCHANGED calls
    \/ \E t \in Threads : check_l64(t) /\ UNCHANGED calls
    \/ \E t \in Threads : check_l66(t) /\ UNCHANGED calls
    \/ \E t \in Threads : check_l69(t) /\ UNCHANGED calls

SpecRLThreads == InitRL /\ [][NextRLThreads]_vars

\* the timestamps recorded for the probe's pair that a sweep at the present
\* time would keep
ProbeRecorded(RL) ==
    SelectSeq(Recorded(RL, "ip1", ProbeSite[1]), LAMBDA x : now - x < TrimWindow)

\* C16 as stated: whatever the interleaving of concurrent check_rate_limit
\* calls for one pair, never more than L calls are admitted within a window
\* (the timestamps recorded inside it are at most L), and no step loses the
\* timestamp of an admitted call.
C16_ConcurrentLimit ==
    [][ /\ Len(InWindow(Recorded(RATE_LIMITS', "ip1", ProbeSite[1]), now, ProbeWindow))
              <= ProbeLimit
        /\ Len(ProbeRecorded(RATE_LIMITS')) >= Len(ProbeRecorded(RATE_LIMITS))
      ]_vars

----------------------------------------------------------------------------
(* SpecSweepThreads: one thread calls check_rate_limit while another runs    *)
(* the trimming loop of cleanup_old_messages; the clock may move past the    *)
(* trimming window.                                                          *)

NextSweepThreads ==
    \/ check_begin("t1", "ip1", ProbeSite) /\ calls < MaxCallsSweep /\ calls' = calls + 1
    \/ check_step("t1") /\ UNCHANGED calls
    \/ cleanup_begin("t2") /\ UNCHANGED calls
    \/ cleanup_l162("t2") /\ UNCHANGED calls
    \/ cleanup_l165("t2") /\ UNCHANGED calls
    \/ cleanup_l166("t2") /\ UNCHANGED calls
    \/ cleanup_l169("t2") /\ UNCHANGED calls
    \/ cleanup_l170("t2") /\ UNCHANGED calls
    \/ Tick(TrimWindow) /\ now' <= TrimWindow /\ UNCHANGED driver_vars

SpecSweepThreads == InitRL /\ [][NextSweepThreads]_vars

\* C20 as stated: with the trimming loop running beside it, check_rate_limit
\* never fails on a missing identity or action entry, and the timestamp of an
\* admitted call is not lost (only timestamps older than the trimming window
\* go).
C20_LimiterSafeUnderSweep ==
    [][ /\ resp'.result # "KeyError"
        /\ Len(ProbeRecorded(RATE_LIMITS')) >= Len(ProbeRecorded(RATE_LIMITS))
      ]_vars

----------------------------------------------------------------------------
(* SpecLoginThreads: the login requests of two clients run as parallel       *)
(* threads, the test of line 521 and the registration of line 527 being two  *)
(* steps; logout and /api/messages requests of a client with no login in     *)
(* flight come in between.                                                   *)

\* the steps of login leave these alone
login_frame == <<now, RATE_LIMITS, LAST_SEEN, DB_INITIALIZED, db_tables, rooms, messages,
                 next_id, due, calls, rejected, touched, redis, unswept, instances>>

\* lines 515-518: the request arrives with its username
login_begin(c, username) ==
    /\ ~Has(threads, c)
    /\ username # ""
    /\ threads' = SetKey(threads, c, [op |-> "login", pc |-> "l521", username |-> username])
    /\ resp' = [Response("login begin", c) EXCEPT !.username = username]
    /\ UNCHANGED <<ACTIVE_SESSIONS, session, next_token, issued>>
    /\ UNCHANGED login_frame

\* lines 521-524: is the username active in another session
login_l521(c) ==
    LET th == threads[c]
    IN  /\ Has(threads, c) /\ th.op = "login" /\ th.pc = "l521"
        /\ IF is_username_active(ACTIVE_SESSIONS, session[c], th.username)
           THEN /\ threads' = DelKey(threads, c)
                /\ resp' = [Response("login", c) EXCEPT !.status = 302,
                                !.username = th.username, !.result = "IDENTITY ALREADY ACTIVE"]
           ELSE /\ threads' = [threads EXCEPT ![c].pc = "l527"]
                /\ resp' = [Response("login l521", c) EXCEPT !.username = th.username]
        /\ UNCHANGED <<ACTIVE_SESSIONS, session, next_token, issued>>
        /\ UNCHANGED login_frame

\* lines 527-528: register_session(username) and the redirect
login_l527(c) ==
    LET th == threads[c]
        r == register_session(ACTIVE_SESSIONS, session[c], th.username, next_token)
    IN  /\ Has(threads, c) /\ th.op = "login" /\ th.pc = "l527"
        /\ ACTIVE_SESSIONS' = r.AS
        /\ session' = [session EXCEPT ![c] = r.sess]
        /\ next_token' = next_token + 1
        /\ threads' = DelKey(threads, c)
        /\ resp' = [Response("login", c) EXCEPT !.status = 302, !.username = th.username,
                                                !.result = "registered"]
        /\ issued' = [d \in Clients |-> issued[d] \cup {session'[d]}]
        /\ UNCHANGED login_frame

NextLoginThreads ==
    \/ \E c \in Clients : login_begin(c, "alice") /\ next_token <= MaxTokens
    \/ \E c \in Clients : login_l521(c)
    \/ \E c \in Clients : login_l527(c)
    \/ \E c \in Clients : logout(c) /\ ~Has(threads, c) /\ UNCHANGED driver_vars
    \/ \E c \in Clients :
          api_messages(c, "GET", EmptyDict) /\ ~Has(threads, c) /\ UNCHANGED driver_vars

SpecLoginThreads == Init /\ [][NextLoginThreads]_vars

\* C17 as stated: whatever the interleaving, the registry entry of a username
\* is replaced or removed only by a request of the client whose session holds
\* its token (so the first registrant's /api/messages requests authenticate
\* until it logs out itself), and no two clients hold a successful login for
\* the same username.
C17_LoginCompareAndSet ==
    [][ /\ \A u \in DOMAIN ACTIVE_SESSIONS :
              (~Has(ACTIVE_SESSIONS', u) \/ ACTIVE_SESSIONS'[u] # ACTIVE_SESSIONS[u])
                  => HoldsToken(resp'.client, u)
        /\ \A c \in Clients : \A d \in Clients \ {c} :
              Has(session'[c], "username")
                  => Get(session'[d], "username", "") # session'[c]["username"]
        /\ (resp'.op = "api" /\ HoldsToken(resp'.client, Get(session[resp'.client], "username", "")))
              => resp'.status # 401
      ]_vars

----------------------------------------------------------------------------
(* SpecPresenceThreads: get_active_count runs as a thread, reading the       *)
(* room's entries (lines 86 and 89, right-hand side) and storing the         *)
(* filtered dict (line 89) in two steps; update_presence calls of other      *)
(* threads and the clock come in between.                                    *)

\* the steps of get_active_count leave these alone
presence_frame == <<now, RATE_LIMITS, ACTIVE_SESSIONS, session, next_token,
                    DB_INITIALIZED, db_tables, rooms, messages, next_id,
                    due, calls, rejected, issued, touched, redis, unswept, instances>>

\* lines 81-82: the call; 0 for a room the table does not have
count_begin(t, room_id) ==
    /\ ~Has(threads, t)
    /\ IF ~Has(LAST_SEEN, room_id)
       THEN /\ resp' = [Response("count", t) EXCEPT !.room_id = room_id]
            /\ UNCHANGED threads
       ELSE /\ threads' = SetKey(threads, t,
                   [op |-> "get_active_count", pc |-> "l84", room_id |-> room_id,
                    count |-> 0, kept |-> EmptyDict])
            /\ resp' = [Response("count begin", t) EXCEPT !.room_id = room_id]
    /\ UNCHANGED LAST_SEEN
    /\ UNCHANGED presence_frame

\* lines 84-89: the entries are read: counted, and copied into a new dict
count_read(t) ==
    LET th == threads[t]
        r == get_active_count(LAST_SEEN, th.room_id, now)
    IN  /\ Has(threads, t) /\ th.op = "get_active_count" /\ th.pc = "l84"
        /\ threads' = [threads EXCEPT ![t].pc = "l89", ![t].count = r.count,
                                      ![t].kept = r.LS[th.room_id]]
        /\ resp' = [Response("count read", t) EXCEPT !.room_id = th.room_id]
        /\ UNCHANGED LAST_SEEN
        /\ UNCHANGED presence_frame

\* lines 89-91: the new dict is stored, the count returned
count_store(t) ==
    LET th == threads[t]
    IN  /\ Has(threads, t) /\ th.op = "get_active_count" /\ th.pc = "l89"
        /\ LAST_SEEN' = SetKey(LAST_SEEN, th.room_id, th.kept)
        /\ threads' = DelKey(threads, t)
        /\ resp' = [Response("count", t) EXCEPT !.room_id = th.room_id,
                                                !.active_count = th.count]
        /\ UNCHANGED presence_frame

NextPresenceThreads ==
    \/ \E username \in Usernames :
          presence_touch("global", username)
            /\ calls < MaxTouchesThreads /\ calls' = calls + 1
            /\ UNCHANGED <<due, rejected, issued, threads, redis, unswept, instances>>
    \/ count_begin("t1", "global")
    \/ count_read("t1")
    \/ count_store("t1")
    \/ Tick(PresenceTick) /\ now' <= MaxTimePresenceThreads /\ UNCHANGED driver_vars

SpecPresenceThreads == Init /\ [][NextPresenceThreads]_vars

\* C19 as stated: no touch is lost: as long as the last completed touch of a
\* room by a user is less than 10 seconds old the presence table holds it,
\* and a get_active_count that starts then counts the user.
C19_NoLostTouch ==
    /\ \A room_id \in DOMAIN touched : \A u \in RecentlyTouched(room_id) :
          /\ Has(LAST_SEEN, room_id) /\ Has(LAST_SEEN[room_id], u)
          /\ LAST_SEEN[room_id][u] = touched[room_id][u]
    /\ \A room_id \in DOMAIN touched :
          get_active_count(LAST_SEEN, room_id, now).count
              >= Cardinality(RecentlyTouched(room_id))

----------------------------------------------------------------------------
(* The Redis chat variant, src/api/index.py: /api/chat.  A string is the     *)
(* sequence of its characters.  Each Redis command is atomic; a POST request *)
(* is three steps (the message is built, LPUSH, LTRIM), and the requests of  *)
(* other workers and the clock come in between.                              *)

\* ltrim('chat_messages', 0, 49) and lrange('chat_messages', 0, 49)
LastIndex == 49
TextLimit == 280
UserLimit == 6

Min(a, b) == IF a <= b THEN a ELSE b

\* the Python slice s[:n], n >= 0
Slice(s, n) == SubSeq(s, 1, Min(n, Len(s)))

\* LPUSH key value
lpush(list, value) == <<value>> \o list

\* LRANGE key start stop, 0 <= start <= stop (both ends inclusive, from 0)
lrange(list, start, stop) == SubSeq(list, start + 1, Min(stop + 1, Len(list)))

\* LTRIM key start stop: the list becomes that range of itself
ltrim(list, start, stop) == lrange(list, start, stop)

Anon == <<"A", "n", "o", "n">>
SYS == <<"S", "Y", "S">>

\* the steps of chat leave these alone
chat_frame == <<now, RATE_LIMITS, LAST_SEEN, ACTIVE_SESSIONS, session, next_token,
                DB_INITIALIZED, db_tables, rooms, messages, next_id,
                due, rejected, issued, touched, unswept, instances>>

\* lines 18-30: the request comes in.  Without a connection the answer is the
\* one SYS message; a POST without 'text' is refused; a POST builds its
\* message: the text and the user cut to size, the time of this moment
chat_begin(t, method, data) ==
    /\ ~Has(threads, t)
    /\ IF ~redis.connected
       THEN /\ resp' = [Response("chat", t) EXCEPT !.method = method, !.status = 200,
                           !.messages = << [user |-> SYS, timestamp |-> now] >>]
            /\ UNCHANGED threads
       ELSE IF method = "POST" /\ (data = EmptyDict \/ ~Has(data, "text"))
       THEN /\ resp' = [Response("chat", t) EXCEPT !.method = method, !.status = 400,
                           !.result = "No text"]
            /\ UNCHANGED threads
       ELSE /\ threads' = SetKey(threads, t,
                   [op |-> "chat", method |-> method,
                    pc |-> IF method = "POST" THEN "l34" ELSE "l42",
                    message |-> IF method = "POST"
                                THEN [text |-> Slice(data["text"], TextLimit),
                                      user |-> Slice(Get(data, "user", Anon), UserLimit),
                                      timestamp |-> now]
                                ELSE EmptyDict])
            /\ resp' = [Response("chat begin", t) EXCEPT !.method = method]
    /\ UNCHANGED redis
    /\ UNCHANGED chat_frame

\* line 34: r.lpush('chat_messages', json.dumps(message))
chat_l34(t) ==
    LET th == threads[t]
    IN  /\ Has(threads, t) /\ th.op = "chat" /\ th.pc = "l34"
        /\ redis' = [redis EXCEPT !.chat_messages = lpush(@, th.message)]
        /\ threads' = [threads EXCEPT ![t].pc = "l36"]
        /\ resp' = [Response("chat lpush", t) EXCEPT !.method = "POST"]
        /\ UNCHANGED calls
        /\ UNCHANGED chat_frame

\* lines 36-38: r.ltrim('chat_messages', 0, 49), and the answer
chat_l36(t) ==
    LET th == threads[t]
    IN  /\ Has(threads, t) /\ th.op = "chat" /\ th.pc = "l36"
        /\ redis' = [redis EXCEPT !.chat_messages = ltrim(@, 0, LastIndex)]
        /\ threads' = DelKey(threads, t)
        /\ resp' = [Response("chat", t) EXCEPT !.method = "POST", !.status = 200,
                                               !.result = "sent"]
        /\ UNCHANGED calls
        /\ UNCHANGED chat_frame

\* lines 42-44: r.lrange('chat_messages', 0, 49), and the answer
chat_l42(t) ==
    LET th == threads[t]
    IN  /\ Has(threads, t) /\ th.op = "chat" /\ th.pc = "l42"
        /\ threads' = DelKey(threads, t)
        /\ resp' = [Response("chat", t) EXCEPT !.method = "GET", !.status = 200,
                        !.messages = lrange(redis.chat_messages, 0, LastIndex)]
        /\ UNCHANGED <<redis, calls>>
        /\ UNCHANGED chat_frame

\* the bodies POST /api/chat is sent with: none, one without 'text', one with
\* a text only, one with a text and a user of 7 characters
ChatBodies ==
    { EmptyDict,
      [user |-> <<"a", "l", "i", "c", "e">>],
      [text |-> <<"h", "i">>],
      [text |-> <<"h", "i">>, user |-> <<"a", "l", "i", "c", "e", "0", "1">>] }

\* the list after n POSTs at time 0, one at a time
RECURSIVE Posted(_)
Posted(n) ==
    IF n = 0 THEN << >>
    ELSE ltrim(lpush(Posted(n - 1), [text |-> <<"h", "i">>, user |-> Anon, timestamp |-> 0]),
               0, LastIndex)

\* the module is loaded: r is a client if KV_URL is set, otherwise None
InitChat ==
    /\ now = 0
    /\ RATE_LIMITS = EmptyDict
    /\ LAST_SEEN = EmptyDict
    /\ ACTIVE_SESSIONS = EmptyDict
    /\ session = [c \in Clients |-> EmptyDict]
    /\ DB_INITIALIZED = FALSE
    /\ db_tables = FALSE
    /\ rooms = EmptyDict
    /\ messages = EmptyDict
    /\ next_id = 1
    /\ next_token = 1
    /\ due = [action |-> "", at |-> 0]
    /\ calls = 0
    /\ rejected = {}
    /\ issued = [c \in Clients |-> {EmptyDict}]
    /\ touched = EmptyDict
    /\ threads = EmptyDict
    /\ unswept = EmptyDict
    /\ instances = [count |-> 0, live |-> EmptyDict, member |-> EmptyDict, written |-> EmptyDict]
    /\ resp = Response("start", "")
    /\ \E connected \in BOOLEAN, n \in {0, LastIndex} :
          redis = [connected |-> connected,
                   chat_messages |-> IF connected THEN Posted(n) ELSE << >>]

NextChat ==
    \/ \E t \in Threads, data \in ChatBodies :
          chat_begin(t, "POST", data) /\ calls < MaxPostsChat /\ calls' = calls + 1
    \/ \E t \in Threads : chat_begin(t, "GET", EmptyDict) /\ UNCHANGED calls
    \/ \E t \in Threads : chat_l34(t)
    \/ \E t \in Threads : chat_l36(t)
    \/ \E t \in Threads : chat_l42(t)
    \/ Tick(1) /\ now' <= MaxTimeChat /\ UNCHANGED driver_vars

SpecChat == InitChat /\ [][NextChat]_vars

\* the timestamps of a list of messages never go up: newest first
NewestFirst(list) ==
    \A i, j \in 1..Len(list) : i < j => list[i].timestamp >= list[j].timestamp

\* C21: only the last 50 messages are kept: when a POST completes the list
\* holds at most 50 entries, the newest at the head, and a GET returns at most
\* 50 messages, newest first, however the POSTs and GETs interleave.
C21_LastFiftyNewestFirst ==
    [][ /\ (resp'.op = "chat" /\ resp'.method = "POST" /\ resp'.result = "sent")
            => /\ Len(redis'.chat_messages) <= LastIndex + 1
               /\ NewestFirst(redis'.chat_messages)
        /\ (resp'.op = "chat" /\ resp'.method = "GET")
            => /\ Len(resp'.messages) <= LastIndex + 1
               /\ NewestFirst(resp'.messages) ]_vars

----------------------------------------------------------------------------
(* SpecTransparent: check_rate_limit called directly, one call at a time,    *)
(* with sweeps at any point in between.  Every call is also made on the      *)
(* table unswept, which no sweep touches.                                    *)

\* a limit with the longest window the sweep allows for
WideSite == <<"wide", ProbeLimit, TrimWindow>>
TransparentSites == {WideSite, <<"join_fail", JoinLimit, JoinWindow>>}
TransparentPairs == { <<"ip1", WideSite>>, <<"ip2", WideSite>>,
                      <<"ip1", <<"join_fail", JoinLimit, JoinWindow>> >> }
\* the ages of the timestamps are multiples of 100 seconds: 300 is one of them
TransparentTicks == {100, 200}

\* one call check_rate_limit(ident, action, limit, window), made on both tables
shadowed_call(ident, site) ==
    LET rl == check_rate_limit(RATE_LIMITS, ident, site[1], site[2], site[3], now)
    IN  /\ RATE_LIMITS' = rl.RL
        /\ unswept' = check_rate_limit(unswept, ident, site[1], site[2], site[3], now).RL
        /\ resp' = [Response("check", "") EXCEPT !.ident = ident, !.action = site[1],
                        !.result = IF rl.allowed THEN "allowed" ELSE "rejected"]
        /\ UNCHANGED <<now, LAST_SEEN, ACTIVE_SESSIONS, session, next_token>>
        /\ UNCHANGED db_vars

NextTransparent ==
    \/ \E p \in TransparentPairs :
          shadowed_call(p[1], p[2])
            /\ calls < MaxCallsTransparent /\ calls' = calls + 1
            /\ UNCHANGED <<due, rejected, issued, touched, threads, redis, instances>>
    \/ api_messages("c1", "GET", EmptyDict) /\ UNCHANGED driver_vars
    \/ \E d \in TransparentTicks :
          Tick(d) /\ now' <= MaxTimeTransparent /\ UNCHANGED driver_vars

SpecTransparent == InitRL /\ [][NextTransparent]_vars

\* the step is a sweep: the /api/messages request of a client without session
IsSweep == resp'.op = "api" /\ resp'.status = 401

\* C22: the sweep is transparent to the rate limiter.  Every call returns
\* what the same call returns on the table that was never swept; and a sweep
\* removes only timestamps at least 300 seconds old, and the action and
\* identity entries this leaves empty.
C22_SweepTransparent ==
    [][ /\ IsCheck =>
             \A site \in TransparentSites : site[1] = resp'.action =>
                (resp'.result = "allowed")
                   = check_rate_limit(unswept, resp'.ident, site[1], site[2], site[3], now).allowed
        /\ IsSweep =>
             /\ \A ident \in DOMAIN RATE_LIMITS : \A action \in DOMAIN RATE_LIMITS[ident] :
                   Recorded(RATE_LIMITS', ident, action)
                      = SelectSeq(RATE_LIMITS[ident][action], LAMBDA x : now - x < TrimWindow)
             /\ \A ident \in DOMAIN RATE_LIMITS' :
                   /\ Has(RATE_LIMITS, ident)
                   /\ RATE_LIMITS'[ident] # EmptyDict
                   /\ \A action \in DOMAIN RATE_LIMITS'[ident] :
                         /\ Has(RATE_LIMITS[ident], action)
                         /\ RATE_LIMITS'[ident][action] # << >>
      ]_vars

\* C22 witness: a call for the 300-second limit is rejected as it is on the
\* unswept table, after a sweep has removed entries that table still holds
C22_Witness ==
    /\ resp.op = "check" /\ resp.action = "wide" /\ resp.result = "rejected"
    /\ \E ident \in DOMAIN unswept : \E action \in DOMAIN unswept[ident] :
          Len(Recorded(RATE_LIMITS, ident, action)) < Len(unswept[ident][action])
    /\ now > TrimWindow

----------------------------------------------------------------------------
(* SpecLogin: login and logout requests of two clients, one at a time; each  *)
(* client presents the cookie of its last response.                          *)

NextLogin ==
    \/ \E c \in Clients, u \in Usernames \cup {""} :
          login(c, u) /\ next_token' <= MaxTokensLogin + 1 /\ UNCHANGED driver_vars
    \/ \E c \in Clients : logout(c) /\ UNCHANGED driver_vars

SpecLogin == Init /\ [][NextLogin]_vars

\* C23: no orphaned registrations: every username in the session registry
\* maps to a token that some client's session holds together with that
\* username (so a username a client gave up for another one is free again).
C23_NoOrphanedRegistration ==
    \A u \in DOMAIN ACTIVE_SESSIONS :
        \E c \in Clients :
            /\ Has(session[c], "username") /\ session[c]["username"] = u
            /\ Has(session[c], "session_id") /\ session[c]["session_id"] = ACTIVE_SESSIONS[u]

----------------------------------------------------------------------------
(* SpecIsolation: two logged-in clients create rooms (c1 the first           *)
(* room, c2 the later ones), send and read, once the first request has set   *)
(* up the tables; the clock passes the                                       *)
(* retention time, so that the sweep removes rooms whose members are still   *)
(* affiliated with the code.  The room                                       *)
(* instances are numbered as they are created (0 is the global room):        *)
(* instances.live is the last instance created under a code, .member the     *)
(* instance a client created or joined, .written the instance of the writer  *)
(* of a message.                                                             *)

GlobalRoom == 0

\* the instance numbers after the request that resp' answers
track_instances ==
    LET c == resp'.client
        code == Get(session'[c], "room_code", NULL)
    IN  instances' =
          IF resp'.op = "create_room" /\ resp'.result = "created"
          THEN [instances EXCEPT !.count = @ + 1,
                                 !.live = SetKey(@, code, instances.count + 1),
                                 !.member = SetKey(@, c, instances.count + 1)]
          ELSE IF resp'.op = "join_room" /\ resp'.result = "joined"
          THEN [instances EXCEPT !.member = SetKey(@, c, instances.live[code])]
          ELSE IF resp'.op \in {"join_global", "leave_room", "logout"}
          THEN [instances EXCEPT !.member = SetKey(@, c, GlobalRoom)]
          ELSE IF resp'.op = "api" /\ resp'.result = "sent"
          THEN [instances EXCEPT !.written =
                    SetKey(@, next_id' - 1, Get(instances.member, c, GlobalRoom))]
          ELSE instances

isolation_frame == <<due, calls, rejected, issued, touched, threads, redis, unswept>>

NextIsolation ==
    \/ \E c \in Clients :
          login(c, IF c = "c1" THEN "alice" ELSE "bob") /\ session[c] = EmptyDict
            /\ track_instances /\ UNCHANGED isolation_frame
    \/ create_room(IF instances.count = 0 THEN "c1" ELSE "c2", "room")
          /\ DB_INITIALIZED /\ instances.count < MaxRoomsIsolation
          /\ track_instances /\ UNCHANGED isolation_frame
    \/ \E c \in Clients :
          api_messages(c, "POST", [content |-> "hi"]) /\ next_id' <= MaxMsgsIsolation + 1
            /\ track_instances /\ UNCHANGED isolation_frame
    \/ \E c \in Clients :
          api_messages(c, "GET", EmptyDict) /\ track_instances /\ UNCHANGED isolation_frame
    \/ Tick(Retention + 60) /\ now' <= MaxTimeIsolation
          /\ track_instances /\ UNCHANGED isolation_frame

SpecIsolation == InitRL /\ [][NextIsolation]_vars

\* C24: room isolation across expiry.  A client is shown only messages
\* written by members of the room instance it created or joined, and a
\* message it sends does not go under the code of a live room of another
\* instance: not either when the sweep has removed its room and a later room
\* has been created with the same code.
C24_RoomIsolation ==
    [][ /\ (resp'.op = "api" /\ resp'.result = "messages") =>
              \A k \in 1..Len(resp'.ids) :
                  instances.written[resp'.ids[k]]
                     = Get(instances.member, resp'.client, GlobalRoom)
        /\ (resp'.op = "api" /\ resp'.result = "sent") =>
              LET code == Get(session[resp'.client], "room_code", NULL)
              IN  (code # NULL /\ Has(rooms', code)) =>
                     instances.live[code] = Get(instances.member, resp'.client, GlobalRoom)
      ]_vars

----------------------------------------------------------------------------
(* The send slot and the message (SpecSend) *)

\* how many of the timestamps recorded for <<ident, action>> in RL equal t
RecordedAt(RL, ident, action, t) ==
    Cardinality({k \in 1..Len(Recorded(RL, ident, action)) :
                    Recorded(RL, ident, action)[k] = t})

\* C25: an authenticated POST records a send timestamp if and only if it
\* inserts exactly one message, of the session's username, in the caller's
\* room, with the current time, and is answered {status: sent}; a POST that
\* inserts nothing consumes no send slot.
C25_SendSlotIffInsert ==
    [][ (resp'.op = "api" /\ resp'.method = "POST" /\ resp'.status # 401) =>
           LET ident == resp'.ident
               inserted == DOMAIN messages' \ DOMAIN ensure_db_initialized.messages
               sess == session[resp'.client]
           IN  (RecordedAt(RATE_LIMITS', ident, "send_msg", now)
                   > RecordedAt(RATE_LIMITS, ident, "send_msg", now))
               <=> /\ Cardinality(inserted) = 1
                   /\ \A m \in inserted :
                         /\ messages'[m].username = sess["username"]
                         /\ messages'[m].room_code = Get(sess, "room_code", NULL)
                         /\ messages'[m].timestamp = adapt_datetime(now)
                   /\ resp'.result = "sent"
      ]_vars

----------------------------------------------------------------------------
(* SpecJoinLive: a room is created, and a client joins by the room's code    *)
(* and by codes no room has, within less than 60 seconds: every join made is *)
(* inside the window of the join-failure limiter.  calls counts the joins    *)
(* that named a code no room has.                                            *)

JoinLiveTick == 10

NextJoinLive ==
    \/ create_room("c1", "room") /\ rooms = EmptyDict /\ UNCHANGED driver_vars
    \/ \E code \in JoinCodes :
          join_room("c2", code)
            /\ calls' = (IF resp'.result = "INVALID FREQUENCY CODE" THEN calls + 1 ELSE calls)
            /\ UNCHANGED <<due, rejected, issued, touched, threads, redis, unswept, instances>>
    \/ Tick(JoinLiveTick) /\ now' <= MaxTimeJoinLive /\ UNCHANGED driver_vars

SpecJoinLive == InitRL /\ [][NextJoinLive]_vars

\* the text is the code of a live room
IsLiveCode(code) == \E k \in DOMAIN rooms : ToString(k) = code

\* C26: successful joins are not throttled as failures.  A join that names
\* the code of a live room is refused by the join-failure limiter only if the
\* address made at least 5 joins with codes no room has in the last 60
\* seconds, and a join that succeeds consumes no join-failure slot.
C26_SuccessfulJoinNotThrottled ==
    [][ (resp'.op = "join_room" /\ IsLiveCode(resp'.room_id)) =>
           /\ resp'.result = "SECURITY LOCKOUT // TOO MANY FAILED ATTEMPTS"
                 => calls >= JoinLimit
           /\ resp'.result = "joined"
                 => RecordedAt(RATE_LIMITS', resp'.ident, "join_fail", now)
                       = RecordedAt(RATE_LIMITS, resp'.ident, "join_fail", now)
      ]_vars

====
